---- MODULE Spec2Model ----
(***************************************************************************)
(* A model of the Monopoly game-state arena and its expansion engine        *)
(* (src/src/game/mod.rs, state_diff.rs, globals.rs).                        *)
(*                                                                          *)
(* Handles, player indexes and top_cc are 0-based as in the source; a TLA+  *)
(* sequence is 1-based, so element h of a Vec v is v[h + 1].                *)
(* Probabilities (f64 in the source) are exact rationals <<num, den>>.      *)
(* A HashMap / HashSet is iterated in ascending key order (the source's     *)
(* iteration order is unspecified).                                         *)
(***************************************************************************)
EXTENDS Integers, Sequences, FiniteSets, TLC

VARIABLES
    nodes,          \* Game.nodes: Vec<StateDiff>
    dirty_handles,  \* Game.dirty_handles: Vec<usize>
    root_handle,    \* Game.root_handle
    move_history,   \* Game.move_history: Vec<usize>
    root_turn,      \* Game.root_turn
    played,         \* the number of moves made since the initial state
    agent,          \* Agent::Ai of seat 0: latest_unseen_move, mcts_tree
    pc,             \* where play is: "play", or in ai_choice: "search", "chosen"
    choice,         \* the index ai_choice has returned
    traversals,     \* the iterations of the loop of ai_choice so far
    comb_n,         \* get_combinations called on its own: its argument n,
    comb_k,         \* its argument k,
    comb_curr,      \* its local curr_comb,
    combinations,   \* its local result,
    comb_pc         \* and where it is: "call", "loop" or "return"

vars == <<nodes, dirty_handles, root_handle, move_history, root_turn, played,
          agent, pc, choice, traversals, comb_n, comb_k, comb_curr, combinations, comb_pc>>
agent_vars == <<agent, pc, choice, traversals>>
comb_vars == <<comb_n, comb_k, comb_curr, combinations, comb_pc>>

(***************************************************************************)
(* Bounds of the model.                                                     *)
(***************************************************************************)
\* Number of players (Game::new(player_count), 2..=4 players).
PlayerCount == 2
\* The arena never holds more than MaxNodes slots.
MaxNodes == 18
\* The root is advanced at most MaxMoves times.
MaxMoves == 2
\* At most MaxExpanded live nodes have children at any time.
MaxExpanded == 2

PlayerIdx == 0 .. (PlayerCount - 1)

(***************************************************************************)
(* Generic helpers.                                                         *)
(***************************************************************************)
RECURSIVE GCD(_, _)
GCD(a, b) == IF b = 0 THEN a ELSE GCD(b, a % b)

\* Rational numbers <<num, den>>, den > 0, standing for the source's f64.
RNorm(r) == LET g == GCD(r[1], r[2]) IN IF g = 0 THEN r ELSE <<r[1] \div g, r[2] \div g>>
RAdd(a, b) ==
    LET over(g) == RNorm(<<a[1] * (b[2] \div g) + b[1] * (a[2] \div g), (a[2] \div g) * b[2]>>)
    IN over(GCD(a[2], b[2]))
RMul(a, b) == RNorm(<<a[1] * b[1], a[2] * b[2]>>)
REq(a, b) == RNorm(a) = RNorm(b)

\* The sum of a sequence of rationals, half by half.
RECURSIVE RSum(_)
RSum(s) ==
    IF s = <<>> THEN <<0, 1>>
    ELSE IF Len(s) = 1 THEN s[1]
    ELSE RAdd(RSum(SubSeq(s, 1, Len(s) \div 2)), RSum(SubSeq(s, Len(s) \div 2 + 1, Len(s))))

RECURSIVE SumSeq(_)
SumSeq(s) == IF s = <<>> THEN 0 ELSE Head(s) + SumSeq(Tail(s))

\* <<Op(s[1]), ..., Op(s[Len(s)])>>
RECURSIVE SeqMap(_, _)
SeqMap(Op(_), s) == IF s = <<>> THEN <<>> ELSE <<Op(Head(s))>> \o SeqMap(Op, Tail(s))

RECURSIVE Flatten(_)
Flatten(ss) == IF ss = <<>> THEN <<>> ELSE Head(ss) \o Flatten(Tail(ss))

Min(S) == CHOOSE x \in S : \A y \in S : x <= y

\* The elements of a finite set of numbers in ascending order.
RECURSIVE SortedSeq(_)
SortedSeq(S) == IF S = {} THEN <<>> ELSE <<Min(S)>> \o SortedSeq(S \ {Min(S)})

Range(s) == {s[k] : k \in 1 .. Len(s)}

\* The map with the keys S and the value Op(x) at key x (a Vec indexed from 0,
\* a HashMap), built key by key.
RECURSIVE MapOn(_, _)
MapOn(Op(_), S) ==
    IF S = {} THEN <<>> ELSE (Min(S) :> Op(Min(S))) @@ MapOn(Op, S \ {Min(S)})

InsertAt(s, i, e) == SubSeq(s, 1, i) \o <<e>> \o SubSeq(s, i + 1, Len(s))

(***************************************************************************)
(* Board reference data (globals.rs).                                       *)
(***************************************************************************)
JAIL_POSITION == 9
FREE_PARKING_POSITION == 18
GO_TO_JAIL_POSITION == 27
TOTAL_CHANCE_CARDS == 21
JAIL_TRIES == 3
BOARD_SIZE == 36
GO_BONUS == 200
JAIL_FEE == 100
LOCATION_FEE == 100
MIN_BID == 20
START_BALANCE == 1500

CC_POSITIONS == {2, 4, 11, 20, 29, 32}
LOC_POSITIONS == {7, 16, 25, 34}
PROP_POSITIONS ==
    {1, 3, 5, 6, 8, 10, 12, 13, 14, 15, 17, 19, 21, 22, 23, 24, 26, 28, 30, 31, 33, 35}

Prop(price, rents) == [price |-> price, rents |-> rents]

PROPERTIES ==
    (1 :> Prop(60, <<70, 130, 220, 370, 750>>)) @@
    (3 :> Prop(60, <<70, 130, 220, 370, 750>>)) @@
    (5 :> Prop(100, <<80, 140, 240, 410, 800>>)) @@
    (6 :> Prop(100, <<80, 140, 240, 410, 800>>)) @@
    (8 :> Prop(120, <<100, 160, 260, 440, 860>>)) @@
    (10 :> Prop(140, <<110, 180, 290, 460, 900>>)) @@
    (12 :> Prop(140, <<110, 180, 290, 460, 900>>)) @@
    (13 :> Prop(160, <<130, 200, 310, 490, 980>>)) @@
    (14 :> Prop(180, <<140, 210, 330, 520, 1000>>)) @@
    (15 :> Prop(180, <<140, 210, 330, 520, 1000>>)) @@
    (17 :> Prop(200, <<160, 230, 350, 550, 1100>>)) @@
    (19 :> Prop(220, <<170, 250, 380, 580, 1160>>)) @@
    (21 :> Prop(220, <<170, 250, 380, 580, 1160>>)) @@
    (22 :> Prop(240, <<190, 270, 400, 610, 1200>>)) @@
    (23 :> Prop(260, <<200, 280, 420, 640, 1300>>)) @@
    (24 :> Prop(260, <<200, 280, 420, 640, 1300>>)) @@
    (26 :> Prop(280, <<220, 300, 440, 670, 1340>>)) @@
    (28 :> Prop(300, <<230, 320, 460, 700, 1400>>)) @@
    (30 :> Prop(300, <<230, 320, 460, 700, 1400>>)) @@
    (31 :> Prop(320, <<250, 340, 480, 730, 1440>>)) @@
    (33 :> Prop(350, <<270, 360, 510, 740, 1500>>)) @@
    (35 :> Prop(400, <<300, 400, 560, 810, 1600>>))

\* Brown, LightBlue, Pink, Orange, Red, Yellow, Green, Blue.
PROPS_BY_COLOR ==
    << {1, 3}, {5, 6, 8}, {10, 12, 13}, {14, 15, 17},
       {19, 21, 22}, {23, 24, 26}, {28, 30, 31}, {33, 35} >>

PROPS_BY_SIDE ==
    << {1, 3, 5, 6, 8}, {10, 12, 13, 14, 15, 17},
       {19, 21, 22, 23, 24, 26}, {28, 30, 31, 33, 35} >>

\* [anti-clockwise neighbour, clockwise neighbour] of every property.
PROPERTY_NEIGHBOURS ==
    (1 :> <<35, 3>>) @@ (3 :> <<1, 5>>) @@ (5 :> <<3, 6>>) @@ (6 :> <<5, 8>>) @@
    (8 :> <<6, 10>>) @@ (10 :> <<8, 12>>) @@ (12 :> <<10, 13>>) @@ (13 :> <<12, 14>>) @@
    (14 :> <<13, 15>>) @@ (15 :> <<14, 17>>) @@ (17 :> <<15, 19>>) @@ (19 :> <<17, 21>>) @@
    (21 :> <<19, 22>>) @@ (22 :> <<21, 23>>) @@ (23 :> <<22, 24>>) @@ (24 :> <<23, 26>>) @@
    (26 :> <<24, 28>>) @@ (28 :> <<26, 30>>) @@ (30 :> <<28, 31>>) @@ (31 :> <<30, 33>>) @@
    (33 :> <<31, 35>>) @@ (35 :> <<33, 1>>)

\* SIGNIFICANT_ROLLS: the loop over d1, d2 in 1..6. A double is pushed as a new
\* entry; any other roll is merged into the first entry with the same sum, or
\* pushed when there is none. Probabilities are counted in 36ths.
DicePairs == Flatten([d1 \in 1 .. 6 |-> [d2 \in 1 .. 6 |-> <<d1, d2>>]])

RECURSIVE SigRollsFrom(_, _)
SigRollsFrom(pairs, acc) ==
    IF pairs = <<>> THEN acc
    ELSE LET d1 == Head(pairs)[1]
             d2 == Head(pairs)[2]
             sum == d1 + d2
             hits == {k \in 1 .. Len(acc) : acc[k].sum = sum}
         IN IF d1 = d2
            THEN SigRollsFrom(Tail(pairs),
                    Append(acc, [probability |-> <<1, 36>>, sum |-> sum, is_double |-> TRUE]))
            ELSE IF hits # {}
            THEN SigRollsFrom(Tail(pairs),
                    [acc EXCEPT ![Min(hits)].probability = <<@[1] + 1, 36>>])
            ELSE SigRollsFrom(Tail(pairs),
                    Append(acc, [probability |-> <<1, 36>>, sum |-> sum, is_double |-> FALSE]))

SIGNIFICANT_ROLLS == SigRollsFrom(DicePairs, <<>>)

\* The probability of rolling a double in one try.
SINGLE_PROBABILITY_of_double ==
    RSum(SeqMap(LAMBDA r : r.probability, SelectSeq(SIGNIFICANT_ROLLS, LAMBDA r : r.is_double)))

\* The probability of not rolling a double in one try.
SINGLE_PROBABILITY ==
    RSum(SeqMap(LAMBDA r : r.probability, SelectSeq(SIGNIFICANT_ROLLS, LAMBDA r : ~r.is_double)))

(***************************************************************************)
(* Chance cards (globals.rs).                                               *)
(***************************************************************************)
\* The cards, in the order of the ChanceCard enum.
CARDS ==
    << "RentTo1", "RentTo5", "SetRentInc", "SetRentDec", "SideRentInc", "SideRentDec",
       "RentSpike", "Bonus", "SwapProperty", "OpponentToJail", "GoToAnyProperty",
       "PropertyTax", "Level1Rent", "AllToParking" >>

DECK_COUNTS ==
    [c \in Range(CARDS) |->
        CASE c \in {"RentTo1", "SetRentInc"} -> 3
          [] c \in {"RentSpike", "Bonus", "SwapProperty"} -> 2
          [] OTHER -> 1]

Occurrences(s, c) == Cardinality({k \in 1 .. Len(s) : s[k] = c})

\* unseen_counts that forgets the cards already seen.
unseen_counts_whole_deck(seen_cards) == DECK_COUNTS

unseen_counts(seen_cards) == [c \in Range(CARDS) |-> DECK_COUNTS[c] - Occurrences(seen_cards, c)]

is_choiceless(card) == card \in {"PropertyTax", "Level1Rent", "AllToParking"}

(***************************************************************************)
(* Player (globals.rs).                                                     *)
(***************************************************************************)
NewPlayer == [in_jail |-> FALSE, position |-> 0, balance |-> START_BALANCE, doubles_rolled |-> 0]

\* move_by that takes the player out of jail whatever the distance.
move_by_always_frees(self, distance) ==
    LET new_pos == (self.position + distance) % BOARD_SIZE
    IN [self EXCEPT
            !.in_jail = FALSE,
            !.balance = IF new_pos < self.position THEN @ + GO_BONUS ELSE @,
            !.position = new_pos]

move_by(self, distance) ==
    LET new_pos == (self.position + distance) % BOARD_SIZE
    IN [self EXCEPT
            !.in_jail = IF self.in_jail /\ distance # 0 THEN FALSE ELSE @,
            !.balance = IF new_pos < self.position THEN @ + GO_BONUS ELSE @,
            !.position = new_pos]

\* send_to_jail without the reset of the doubles counter.
send_to_jail_keep_doubles(self) ==
    [self EXCEPT !.position = JAIL_POSITION, !.in_jail = TRUE]

send_to_jail(self) ==
    [self EXCEPT !.position = JAIL_POSITION, !.in_jail = TRUE, !.doubles_rolled = 0]

(***************************************************************************)
(* PropertyOwnership, MoveType, BranchType (state_diff.rs).                 *)
(***************************************************************************)
Ownership(owner, rent_level) == [owner |-> owner, rent_level |-> rent_level]

\* raise_rent / lower_rent / change_rent return <<new value, had an effect>>.
\* raise_rent that leaves the rent level where it is.
raise_rent_stuck(self) == <<self, FALSE>>

raise_rent(self) ==
    IF self.rent_level < 5 THEN <<[self EXCEPT !.rent_level = @ + 1], TRUE>> ELSE <<self, FALSE>>

lower_rent(self) ==
    IF self.rent_level > 1 THEN <<[self EXCEPT !.rent_level = @ - 1], TRUE>> ELSE <<self, FALSE>>

change_rent(self, increase) == IF increase THEN raise_rent(self) ELSE lower_rent(self)

Move(mt) == [mt |-> mt, cc |-> "None"]
ChoicefulCC(card) == [mt |-> "ChoicefulCC", cc |-> card]

\* when_landed_on that takes the location tiles for properties.
when_landed_on_location_as_property(tile) ==
    IF tile \in PROP_POSITIONS \cup LOC_POSITIONS THEN Move("Property")
    ELSE IF tile \in CC_POSITIONS THEN Move("ChanceCard")
    ELSE Move("Roll")

when_landed_on(tile) ==
    IF tile \in PROP_POSITIONS THEN Move("Property")
    ELSE IF tile \in CC_POSITIONS THEN Move("ChanceCard")
    ELSE IF tile \in LOC_POSITIONS THEN Move("Location")
    ELSE Move("Roll")

is_roll(self) == self.mt = "Roll"

Chance(p) == [kind |-> "Chance", p |-> p]
Choice == [kind |-> "Choice", p |-> <<0, 1>>]
UndefinedBranch == [kind |-> "Undefined", p |-> <<0, 1>>]
ONE == <<1, 1>>

(***************************************************************************)
(* DiffID (globals.rs) and StateDiff (state_diff.rs).                       *)
(***************************************************************************)
DiffID_Level1Rent == 1
DiffID_SeenCcsHead == 2
DiffID_SeenCcs == 3
DiffID_OwnedProperties == 4
DiffID_CurrentPlayer == 5
DiffID_Players == 6
DiffID_JailRounds == 7

DiffID_all ==
    << DiffID_Level1Rent, DiffID_SeenCcsHead, DiffID_SeenCcs, DiffID_OwnedProperties,
       DiffID_CurrentPlayer, DiffID_Players, DiffID_JailRounds >>

\* A FieldDiff: the enum variant (named by its DiffID) and the value it carries.
FieldDiff(diff_id, val) == [id |-> diff_id, val |-> val]

\* x >> k and (x >> k) & 1 on a u8.
Shr(x, k) == x \div (2 ^ k)
Bit(x, k) == Shr(x, k) % 2

new_with_parent(parent) ==
    [ diffs |-> <<>>, present_diffs |-> 0, parent |-> parent, children |-> <<>>,
      branch_type |-> UndefinedBranch, next_move |-> Move("Undefined") ]

EmptyMap == <<>>

new_root(player_count) ==
    [ diffs |-> << FieldDiff(DiffID_JailRounds, MapOn(LAMBDA i : 0, 0 .. (player_count - 1))),
                   FieldDiff(DiffID_Players, MapOn(LAMBDA i : NewPlayer, 0 .. (player_count - 1))),
                   FieldDiff(DiffID_CurrentPlayer, 0),
                   FieldDiff(DiffID_OwnedProperties, EmptyMap),
                   FieldDiff(DiffID_SeenCcs, <<>>),
                   FieldDiff(DiffID_SeenCcsHead, 0),
                   FieldDiff(DiffID_Level1Rent, 0) >>,
      present_diffs |-> 254, parent |-> 0, children |-> <<>>,
      branch_type |-> UndefinedBranch, next_move |-> Move("Roll") ]

diff_exists(self, diff_id) == Bit(self.present_diffs, diff_id) = 1

get_supposed_diff_index(self, diff_id) ==
    LET high_bit_sum(relevant_bits) == Cardinality({k \in 1 .. 7 : Bit(relevant_bits, k) = 1})
    IN high_bit_sum(Shr(self.present_diffs, diff_id))

\* Some(i) is <<i>>, None is <<>>.
get_diff_index(self, diff_id) ==
    IF ~diff_exists(self, diff_id) THEN <<>> ELSE <<get_supposed_diff_index(self, diff_id)>>

\* set_diff that pushes a new entry at the end of diffs.
set_diff_push(self, diff_id, diff) ==
    LET place(diff_index) ==
            IF diff_exists(self, diff_id)
            THEN [self EXCEPT !.diffs[diff_index + 1] = diff]
            ELSE [self EXCEPT !.diffs = Append(@, diff),
                              !.present_diffs = @ + 2 ^ diff_id]
    IN place(get_supposed_diff_index(self, diff_id))

set_diff(self, diff_id, diff) ==
    LET place(diff_index) ==
            IF diff_exists(self, diff_id)
            THEN [self EXCEPT !.diffs[diff_index + 1] = diff]
            ELSE [self EXCEPT !.diffs = InsertAt(@, diff_index, diff),
                              !.present_diffs = @ + 2 ^ diff_id]
    IN place(get_supposed_diff_index(self, diff_id))

set_players(self, players) == set_diff(self, DiffID_Players, FieldDiff(DiffID_Players, players))
set_current_pindex(self, curr_player) ==
    set_diff(self, DiffID_CurrentPlayer, FieldDiff(DiffID_CurrentPlayer, curr_player))
set_owned_properties(self, owned_properties) ==
    set_diff(self, DiffID_OwnedProperties, FieldDiff(DiffID_OwnedProperties, owned_properties))
set_seen_ccs(self, seen_ccs) == set_diff(self, DiffID_SeenCcs, FieldDiff(DiffID_SeenCcs, seen_ccs))
set_top_cc(self, seen_ccs_head) ==
    set_diff(self, DiffID_SeenCcsHead, FieldDiff(DiffID_SeenCcsHead, seen_ccs_head))
set_level_1_rent(self, rent) ==
    set_diff(self, DiffID_Level1Rent, FieldDiff(DiffID_Level1Rent, rent))
set_jail_rounds(self, jail_rounds) ==
    set_diff(self, DiffID_JailRounds, FieldDiff(DiffID_JailRounds, jail_rounds))

(***************************************************************************)
(* get_combinations (globals.rs).                                           *)
(***************************************************************************)
\* CombCarry that carries only once a position has gone past its last value.
RECURSIVE CombCarry_late(_, _, _, _)
CombCarry_late(n, k, comb, i) ==
    IF i > 0 /\ comb[i + 1] > n - k + 1 + i
    THEN CombCarry_late(n, k, [comb EXCEPT ![i] = @ + 1], i - 1)
    ELSE <<comb, i>>

\* The inner while loop: carries into lower positions. i is the 0-based index.
RECURSIVE CombCarry(_, _, _, _)
CombCarry(n, k, comb, i) ==
    IF i > 0 /\ comb[i + 1] >= n - k + 1 + i
    THEN CombCarry(n, k, [comb EXCEPT ![i] = @ + 1], i - 1)
    ELSE <<comb, i>>

\* for j in (i + 1)..k { curr_comb[j] = curr_comb[j - 1] + 1 }
RECURSIVE CombFill(_, _, _)
CombFill(k, comb, j) ==
    IF j >= k THEN comb ELSE CombFill(k, [comb EXCEPT ![j + 1] = comb[j] + 1], j + 1)

\* for i in 0..k { curr_comb.push(i) }
RECURSIVE CombFirst(_)
CombFirst(k) == IF k = 0 THEN <<>> ELSE Append(CombFirst(k - 1), k - 1)

RECURSIVE CombLoop(_, _, _, _)
CombLoop(n, k, curr_comb, result) ==
    LET carried == CombCarry(n, k, [curr_comb EXCEPT ![k] = @ + 1], k - 1)
        comb == carried[1]
        i == carried[2]
    IN IF comb[1] > n - k
       THEN result
       ELSE LET next == CombFill(k, comb, i + 1)
            IN CombLoop(n, k, next, Append(result, next))

\* Vec<Vec<usize>> of 0-based indexes; called with 1 <= k <= n.
\* get_combinations that stops after the first combination.
get_combinations_first_only(n, k) == <<CombFirst(k)>>

get_combinations(n, k) ==
    LET start(first) == CombLoop(n, k, first, <<first>>)
    IN start(CombFirst(k))

(***************************************************************************)
(* Game helpers (mod.rs).                                                   *)
(***************************************************************************)
NodeAt(ns, handle) == ns[handle + 1]

RECURSIVE diff_field(_, _, _)
diff_field(ns, handle, diff_id) ==
    LET field(s, idx) ==
            IF idx # <<>> THEN s.diffs[idx[1] + 1] ELSE diff_field(ns, s.parent, diff_id)
    IN field(NodeAt(ns, handle), get_diff_index(NodeAt(ns, handle), diff_id))

diff_jail_rounds(ns, handle) == diff_field(ns, handle, DiffID_JailRounds).val
diff_players(ns, handle) == diff_field(ns, handle, DiffID_Players).val
diff_current_pindex(ns, handle) == diff_field(ns, handle, DiffID_CurrentPlayer).val
diff_owned_properties(ns, handle) == diff_field(ns, handle, DiffID_OwnedProperties).val
diff_seen_ccs(ns, handle) == diff_field(ns, handle, DiffID_SeenCcs).val
diff_top_cc(ns, handle) == diff_field(ns, handle, DiffID_SeenCcsHead).val
diff_lvl_1_rent(ns, handle) == diff_field(ns, handle, DiffID_Level1Rent).val

get_current_player(ns, handle) == diff_players(ns, handle)[diff_current_pindex(ns, handle)]

\* get_next_pindex that keeps the turn with the current player.
get_next_pindex_stay(ns, handle) == diff_current_pindex(ns, handle)

get_next_pindex(ns, handle) ==
    (diff_current_pindex(ns, handle) + 1) % Cardinality(DOMAIN diff_players(ns, handle))

get_next_top_cc(ns, handle) == (diff_top_cc(ns, handle) + 1) % TOTAL_CHANCE_CARDS

\* The positions owned by the current player.
get_current_props(ns, handle) ==
    LET props == diff_owned_properties(ns, handle)
    IN {pos \in DOMAIN props : props[pos].owner = diff_current_pindex(ns, handle)}

\* is_terminal that never ends the game.
is_terminal_never(ns, handle) == FALSE

is_terminal(ns, handle) ==
    LET bankrupt(players) == \E i \in DOMAIN players : players[i].balance < 0
    IN bankrupt(diff_players(ns, handle)) /\ NodeAt(ns, handle).next_move.mt # "SellProperty"

\* Updates seen_ccs, or top_cc once every card has been seen.
\* UpdateDeck that goes on pushing cards once the whole deck has been seen.
UpdateDeck_always_push(ns, card, handle, state) ==
    set_seen_ccs(state, Append(diff_seen_ccs(ns, handle), card))

UpdateDeck(ns, card, handle, state) ==
    IF Len(diff_seen_ccs(ns, handle)) = TOTAL_CHANCE_CARDS
    THEN set_top_cc(state, get_next_top_cc(ns, handle))
    ELSE set_seen_ccs(state, Append(diff_seen_ccs(ns, handle), card))

new_state_from_cc(ns, card, handle) ==
    LET s0 == [new_with_parent(handle) EXCEPT !.next_move = Move("Roll")]
        s1 == IF get_current_player(ns, handle).doubles_rolled = 0
              THEN set_current_pindex(s0, get_next_pindex(ns, handle))
              ELSE s0
    IN UpdateDeck(ns, card, handle, s1)

\* advance_move that passes the turn whatever the doubles counter.
advance_move_always_passes(ns, handle, state) ==
    set_current_pindex([state EXCEPT !.next_move = Move("Roll")], get_next_pindex(ns, handle))

advance_move(ns, handle, state) ==
    LET s0 == [state EXCEPT !.next_move = Move("Roll")]
    IN IF get_current_player(ns, handle).doubles_rolled = 0
       THEN set_current_pindex(s0, get_next_pindex(ns, handle))
       ELSE s0

\* Vec<(usize, f64)>: every player with balance >= 20, weighted by balance.
\* get_auction_winner_chances that lets the current player alone bid.
get_auction_winner_chances_self(ns, handle) ==
    << <<diff_current_pindex(ns, handle), ONE>> >>

get_auction_winner_chances(ns, handle) ==
    LET players == diff_players(ns, handle)
        possible_winners == SelectSeq(SortedSeq(DOMAIN players),
                                      LAMBDA i : players[i].balance >= MIN_BID)
        total_balance == SumSeq(SeqMap(LAMBDA i : players[i].balance, possible_winners))
    IN SeqMap(LAMBDA i : <<i, <<players[i].balance, total_balance>> >>, possible_winners)

\* ((balance - 20) as f64 * pos / 20.0).round() as i32 * 20 + 20 at pos = k / 6;
\* f64::round rounds half away from zero and the operand is not negative.
\* balance_at_pos that rounds to multiples of 10.
balance_at_pos_tens(balance, k) == (((balance - MIN_BID) * k + 30) \div 60) * 10 + MIN_BID

balance_at_pos(balance, k) == (((balance - MIN_BID) * k + 60) \div 120) * 20 + MIN_BID

\* The bell curve, in 10000ths.
BID_CURVE == << <<1, 675>>, <<2, 2410>>, <<3, 3830>>, <<4, 2410>>, <<5, 675>> >>

RECURSIVE FoldBids(_, _)
FoldBids(entries, acc) ==
    IF entries = <<>> THEN acc
    ELSE LET p == Head(entries)[1]
             c == Head(entries)[2]
         IN IF acc # <<>> /\ p = acc[Len(acc)][1]
            THEN FoldBids(Tail(entries), [acc EXCEPT ![Len(acc)][2] = @ + c])
            ELSE FoldBids(Tail(entries), Append(acc, <<p, c>>))

\* Vec<(i32, f64)>; the chances are kept in 10000ths.
get_winning_bid_chances(ns, handle, winner) ==
    LET balance == diff_players(ns, handle)[winner].balance
    IN FoldBids(SeqMap(LAMBDA e : <<balance_at_pos(balance, e[1]), e[2]>>, BID_CURVE), <<>>)

(***************************************************************************)
(* Expansion: Roll, ChanceCard, Location, Property, Auction, SellProperty.  *)
(***************************************************************************)
gen_roll_children(ns, handle) ==
    LET i == diff_current_pindex(ns, handle)
        players == diff_players(ns, handle)
    IN IF get_current_player(ns, handle).in_jail
       THEN LET jail_rounds == diff_jail_rounds(ns, handle)[i]
                leave(roll) ==
                    LET d0 == [new_with_parent(handle) EXCEPT
                                    !.branch_type = Chance(roll.probability),
                                    !.next_move = when_landed_on(players[i].position)]
                        fined == IF ~roll.is_double /\ jail_rounds = 0
                                 THEN [players[i] EXCEPT !.balance = @ - JAIL_FEE]
                                 ELSE players[i]
                        d1 == set_players(d0, [players EXCEPT ![i] = move_by(fined, roll.sum)])
                    IN IF is_roll(d1.next_move)
                       THEN set_current_pindex(d1, get_next_pindex(ns, handle))
                       ELSE d1
                stay_in_jail ==
                    set_current_pindex(
                        [new_with_parent(handle) EXCEPT
                            !.branch_type = Chance(SINGLE_PROBABILITY),
                            !.next_move = Move("Roll")],
                        get_next_pindex(ns, handle))
            IN SeqMap(leave, SelectSeq(SIGNIFICANT_ROLLS,
                                       LAMBDA roll : roll.is_double \/ jail_rounds = 0))
               \o (IF jail_rounds > 0 THEN <<stay_in_jail>> ELSE <<>>)
       ELSE LET play(roll) ==
                    LET s0 == [new_with_parent(handle) EXCEPT
                                    !.branch_type = Chance(roll.probability)]
                        moved == move_by(players[i], roll.sum)
                        to_jail == moved.position = GO_TO_JAIL_POSITION
                        s1 == IF to_jail
                              THEN set_jail_rounds(s0,
                                      [diff_jail_rounds(ns, handle) EXCEPT ![i] = JAIL_TRIES])
                              ELSE s0
                        player ==
                            IF to_jail THEN send_to_jail(moved)
                            ELSE IF roll.is_double
                            THEN IF moved.doubles_rolled + 1 = 3
                                 THEN send_to_jail([moved EXCEPT !.doubles_rolled = @ + 1])
                                 ELSE [moved EXCEPT !.doubles_rolled = @ + 1]
                            ELSE [moved EXCEPT !.doubles_rolled = 0]
                        s2 == [s1 EXCEPT !.next_move = when_landed_on(player.position)]
                        s3 == IF is_roll(s2.next_move) /\ player.doubles_rolled = 0
                              THEN set_current_pindex(s2, get_next_pindex(ns, handle))
                              ELSE s2
                    IN set_players(s3, [players EXCEPT ![i] = player])
            IN SeqMap(play, SIGNIFICANT_ROLLS)

gen_cc_property_tax(ns, probability, handle) ==
    LET i == diff_current_pindex(ns, handle)
        tax == 50 * Cardinality(get_current_props(ns, handle))
        updated_players == [diff_players(ns, handle) EXCEPT ![i].balance = @ - tax]
        state == [new_state_from_cc(ns, "PropertyTax", handle) EXCEPT
                        !.branch_type = Chance(probability)]
    IN set_players(state, updated_players)

\* gen_cc_level_1_rent that sets one round: as many turns as players.
gen_cc_level_1_rent_one_round(ns, probability, handle) ==
    LET state == [new_state_from_cc(ns, "Level1Rent", handle) EXCEPT
                        !.branch_type = Chance(probability)]
    IN set_level_1_rent(state, Cardinality(DOMAIN diff_players(ns, handle)))

gen_cc_level_1_rent(ns, probability, handle) ==
    LET state == [new_state_from_cc(ns, "Level1Rent", handle) EXCEPT
                        !.branch_type = Chance(probability)]
    IN set_level_1_rent(state, Cardinality(DOMAIN diff_players(ns, handle)) * 2)

\* gen_cc_all_to_parking that moves the players in jail too.
gen_cc_all_to_parking_everyone(ns, probability, handle) ==
    LET players == diff_players(ns, handle)
        updated_players ==
            MapOn(LAMBDA i : [players[i] EXCEPT !.position = FREE_PARKING_POSITION],
                  DOMAIN players)
        state == [new_state_from_cc(ns, "AllToParking", handle) EXCEPT
                        !.branch_type = Chance(probability)]
    IN set_players(state, updated_players)

gen_cc_all_to_parking(ns, probability, handle) ==
    LET players == diff_players(ns, handle)
        updated_players ==
            MapOn(LAMBDA i : IF ~players[i].in_jail
                             THEN [players[i] EXCEPT !.position = FREE_PARKING_POSITION]
                             ELSE players[i],
                  DOMAIN players)
        state == [new_state_from_cc(ns, "AllToParking", handle) EXCEPT
                        !.branch_type = Chance(probability)]
    IN set_players(state, updated_players)

gen_choiceless_cc_child(ns, cc, handle, probability) ==
    CASE cc = "PropertyTax" -> gen_cc_property_tax(ns, probability, handle)
      [] cc = "Level1Rent" -> gen_cc_level_1_rent(ns, probability, handle)
      [] cc = "AllToParking" -> gen_cc_all_to_parking(ns, probability, handle)

\* gen_location_children whose "don't teleport" child is left without a branch
\* type.
gen_location_children_stay_untyped(ns, handle) ==
    LET curr_pindex == diff_current_pindex(ns, handle)
        players == diff_players(ns, handle)
        teleport(pos) ==
            set_players(
                [new_with_parent(handle) EXCEPT
                    !.next_move = Move("Property"), !.branch_type = Choice],
                [players EXCEPT ![curr_pindex].balance = @ - LOCATION_FEE,
                                ![curr_pindex].position = pos])
    IN SeqMap(teleport, SortedSeq(PROP_POSITIONS))
       \o <<advance_move(ns, handle, new_with_parent(handle))>>

gen_location_children(ns, handle) ==
    LET curr_pindex == diff_current_pindex(ns, handle)
        players == diff_players(ns, handle)
        teleport(pos) ==
            set_players(
                [new_with_parent(handle) EXCEPT
                    !.next_move = Move("Property"), !.branch_type = Choice],
                [players EXCEPT ![curr_pindex].balance = @ - LOCATION_FEE,
                                ![curr_pindex].position = pos])
        no_move == [advance_move(ns, handle, new_with_parent(handle)) EXCEPT
                        !.branch_type = Choice]
    IN SeqMap(teleport, SortedSeq(PROP_POSITIONS)) \o <<no_move>>

gen_property_children(ns, handle) ==
    LET player_pos == get_current_player(ns, handle).position
        curr_pindex == diff_current_pindex(ns, handle)
        owned == diff_owned_properties(ns, handle)
        players == diff_players(ns, handle)
    IN IF player_pos \in DOMAIN owned
       THEN LET prop == owned[player_pos]
                s0 == [new_with_parent(handle) EXCEPT !.branch_type = Chance(ONE)]
                new_rent_level == IF diff_lvl_1_rent(ns, handle) = 0 THEN prop.rent_level ELSE 1
                balance_due == PROPERTIES[player_pos].rents[new_rent_level]
                paid == [players EXCEPT ![curr_pindex].balance = @ - balance_due,
                                        ![prop.owner].balance = @ + balance_due]
                s1 == IF prop.owner # curr_pindex
                      THEN set_players(
                              IF paid[curr_pindex].balance < 0
                              THEN [s0 EXCEPT !.next_move = Move("SellProperty")]
                              ELSE s0,
                              paid)
                      ELSE s0
                s2 == set_owned_properties(s1,
                          [owned EXCEPT ![player_pos] = raise_rent(@)[1]])
            IN << IF s2.next_move.mt = "Undefined" THEN advance_move(ns, handle, s2) ELSE s2 >>
       ELSE LET curr_player_balance == players[curr_pindex].balance
                price == PROPERTIES[player_pos].price
                buy_state ==
                    set_owned_properties(
                        set_players(
                            [advance_move(ns, handle, new_with_parent(handle)) EXCEPT
                                !.branch_type = Choice],
                            [players EXCEPT ![curr_pindex].balance = @ - price]),
                        (player_pos :> Ownership(curr_pindex, 1)) @@ owned)
                auction_state == [new_with_parent(handle) EXCEPT
                                    !.branch_type = Choice, !.next_move = Move("Auction")]
            IN (IF curr_player_balance > price THEN <<buy_state>> ELSE <<>>)
               \o <<auction_state>>

gen_auction_children(ns, handle) ==
    LET players == diff_players(ns, handle)
        owned == diff_owned_properties(ns, handle)
        prop_pos == players[diff_current_pindex(ns, handle)].position
        sold(auction_winner, player_chance, winning_bid, bid_chance) ==
            LET s0 == set_players(new_with_parent(handle),
                          [players EXCEPT ![auction_winner].balance = @ - winning_bid])
                s1 == set_owned_properties(s0,
                          (prop_pos :> Ownership(auction_winner, 1)) @@ owned)
                s2 == [s1 EXCEPT !.branch_type =
                            Chance(RMul(player_chance, <<bid_chance, 10000>>))]
            IN advance_move(ns, handle, s2)
        children ==
            Flatten(SeqMap(
                LAMBDA w : SeqMap(LAMBDA b : sold(w[1], w[2], b[1], b[2]),
                                  get_winning_bid_chances(ns, handle, w[1])),
                get_auction_winner_chances(ns, handle)))
    IN IF Len(children) = 0
       THEN << advance_move(ns, handle,
                   [new_with_parent(handle) EXCEPT !.branch_type = Chance(ONE)]) >>
       ELSE children

\* props.remove(&(prop_i as u8)) for every index prop_i of the combination.
RemoveKeys(props, keys) == MapOn(LAMBDA pos : props[pos], (DOMAIN props) \ keys)

\* The loop `for k in from..my_props.len()`: the children of the first k for
\* which some combination covers the debt.
RECURSIVE SellLoop(_, _, _, _)
SellLoop(ns, handle, my_props, k) ==
    LET curr_pindex == diff_current_pindex(ns, handle)
        players == diff_players(ns, handle)
        curr_balance == players[curr_pindex].balance
        total_worth(comb) == SumSeq(SeqMap(LAMBDA i : PROPERTIES[my_props[i + 1]].price, comb))
        sell_prop(comb) ==
            LET s0 == [new_with_parent(handle) EXCEPT !.branch_type = Choice]
                s1 == set_owned_properties(s0,
                          RemoveKeys(diff_owned_properties(ns, handle), Range(comb)))
                s2 == set_players(s1,
                          [players EXCEPT ![curr_pindex].balance = @ + total_worth(comb)])
            IN advance_move(ns, handle, s2)
        found == SeqMap(sell_prop,
                        SelectSeq(get_combinations(Len(my_props), k),
                                  LAMBDA comb : ~(curr_balance + total_worth(comb) < 0)))
    IN IF k >= Len(my_props) THEN <<>>
       ELSE IF found # <<>> THEN found
       ELSE SellLoop(ns, handle, my_props, k + 1)

gen_sell_prop_children(ns, handle) ==
    LET my_props == SortedSeq(get_current_props(ns, handle))
        gameover == [advance_move(ns, handle, new_with_parent(handle)) EXCEPT
                        !.branch_type = Chance(ONE)]
        children == SellLoop(ns, handle, my_props, 1)
    IN IF Len(my_props) = 0 THEN <<gameover>>
       ELSE IF Len(children) = 0 THEN <<gameover>>
       ELSE children

(***************************************************************************)
(* Expansion: choiceful chance cards.                                       *)
(***************************************************************************)
\* gen_cc_rent_to_x that lets RentTo5 raise the opponents' properties too.
gen_cc_rent_to_x_any_owner(ns, max, handle) ==
    LET cc == IF max THEN "RentTo5" ELSE "RentTo1"
        target_rent == IF max THEN 5 ELSE 1
        owned == diff_owned_properties(ns, handle)
        child(pos) ==
            set_owned_properties(
                [new_state_from_cc(ns, cc, handle) EXCEPT !.branch_type = Choice],
                [owned EXCEPT ![pos].rent_level = target_rent])
    IN SeqMap(child, SelectSeq(SortedSeq(DOMAIN owned),
                               LAMBDA pos : owned[pos].rent_level # target_rent))

gen_cc_rent_to_x(ns, max, handle) ==
    LET curr_pindex == diff_current_pindex(ns, handle)
        cc == IF max THEN "RentTo5" ELSE "RentTo1"
        target_rent == IF max THEN 5 ELSE 1
        owned == diff_owned_properties(ns, handle)
        skipped(pos) == (max /\ owned[pos].owner # curr_pindex)
                        \/ owned[pos].rent_level = target_rent
        child(pos) ==
            set_owned_properties(
                [new_state_from_cc(ns, cc, handle) EXCEPT !.branch_type = Choice],
                [owned EXCEPT ![pos].rent_level = target_rent])
    IN SeqMap(child, SelectSeq(SortedSeq(DOMAIN owned), LAMBDA pos : ~skipped(pos)))

\* Applies change_rent to every owned property among `positions`, in order;
\* returns <<owned properties, has_effect>>.
RECURSIVE ChangeRents(_, _, _, _)
ChangeRents(owned_props, positions, increase, has_effect) ==
    IF positions = <<>> THEN <<owned_props, has_effect>>
    ELSE LET pos == Head(positions)
         IN IF pos \in DOMAIN owned_props
            THEN LET r == change_rent(owned_props[pos], increase)
                 IN ChangeRents([owned_props EXCEPT ![pos] = r[1]], Tail(positions),
                                increase, has_effect \/ r[2])
            ELSE ChangeRents(owned_props, Tail(positions), increase, has_effect)

\* The shared body of gen_cc_set_rent_change and gen_cc_side_rent_change.
RentChangeByGroup(ns, cc, groups, increase, handle) ==
    LET my_props == get_current_props(ns, handle)
        child(positions) ==
            LET r == ChangeRents(diff_owned_properties(ns, handle), SortedSeq(positions),
                                 increase, FALSE)
            IN IF my_props \cap positions = {} \/ ~r[2]
               THEN <<>>
               ELSE << set_owned_properties(
                          [new_state_from_cc(ns, cc, handle) EXCEPT !.branch_type = Choice],
                          r[1]) >>
    IN Flatten(SeqMap(child, groups))

gen_cc_set_rent_change(ns, increase, handle) ==
    RentChangeByGroup(ns, IF increase THEN "SetRentInc" ELSE "SetRentDec",
                      PROPS_BY_COLOR, increase, handle)

gen_cc_side_rent_change(ns, increase, handle) ==
    RentChangeByGroup(ns, IF increase THEN "SideRentInc" ELSE "SideRentDec",
                      PROPS_BY_SIDE, increase, handle)

gen_cc_rent_spike(ns, handle) ==
    LET i == diff_current_pindex(ns, handle)
        owned == diff_owned_properties(ns, handle)
        child(pos) ==
            LET raised == raise_rent(owned[pos])
                lowered == ChangeRents([owned EXCEPT ![pos] = raised[1]],
                                       PROPERTY_NEIGHBOURS[pos], FALSE, raised[2])
            IN IF owned[pos].owner # i \/ ~lowered[2]
               THEN <<>>
               ELSE << set_owned_properties(
                          [new_state_from_cc(ns, "RentSpike", handle) EXCEPT
                                !.branch_type = Choice],
                          lowered[1]) >>
    IN Flatten(SeqMap(child, SortedSeq(DOMAIN owned)))

gen_cc_bonus(ns, handle) ==
    LET curr_pindex == diff_current_pindex(ns, handle)
        players == diff_players(ns, handle)
        child(i) ==
            set_players(
                [new_state_from_cc(ns, "Bonus", handle) EXCEPT !.branch_type = Choice],
                [[players EXCEPT ![curr_pindex].balance = @ + 200] EXCEPT ![i].balance = @ + 200])
    IN SeqMap(child, SelectSeq(SortedSeq(DOMAIN players), LAMBDA i : i # curr_pindex))

gen_cc_swap_property(ns, handle) ==
    LET parent_props == diff_owned_properties(ns, handle)
        curr_pindex == diff_current_pindex(ns, handle)
        mine == SelectSeq(SortedSeq(DOMAIN parent_props),
                          LAMBDA pos : parent_props[pos].owner = curr_pindex)
        theirs == SelectSeq(SortedSeq(DOMAIN parent_props),
                            LAMBDA pos : parent_props[pos].owner # curr_pindex)
        child(my_pos, opp_pos) ==
            set_owned_properties(
                [new_state_from_cc(ns, "SwapProperty", handle) EXCEPT !.branch_type = Choice],
                [parent_props EXCEPT ![my_pos].owner = parent_props[opp_pos].owner,
                                     ![opp_pos].owner = parent_props[my_pos].owner])
    IN Flatten(SeqMap(LAMBDA my_pos : SeqMap(LAMBDA opp_pos : child(my_pos, opp_pos), theirs),
                      mine))

gen_cc_opponent_to_jail(ns, handle) ==
    LET curr_pindex == diff_current_pindex(ns, handle)
        players == diff_players(ns, handle)
        child(i) ==
            set_players(
                [new_state_from_cc(ns, "OpponentToJail", handle) EXCEPT !.branch_type = Choice],
                [players EXCEPT ![i] = send_to_jail(@)])
    IN SeqMap(child, SelectSeq(SortedSeq(DOMAIN players), LAMBDA i : i # curr_pindex))

gen_cc_go_to_any_property(ns, handle) ==
    LET curr_pindex == diff_current_pindex(ns, handle)
        players == diff_players(ns, handle)
        child(pos) ==
            LET s0 == [new_with_parent(handle) EXCEPT !.branch_type = Choice]
                s1 == set_players(s0, [players EXCEPT ![curr_pindex].position = pos])
                s2 == [s1 EXCEPT !.next_move = Move("Property")]
            IN UpdateDeck(ns, "GoToAnyProperty", handle, s2)
    IN SeqMap(child, SortedSeq(PROP_POSITIONS))

\* The match of gen_choiceful_cc_children: the children of the card.
choiceful_cc_children(ns, handle, cc) ==
    CASE cc = "RentTo5" -> gen_cc_rent_to_x(ns, TRUE, handle)
      [] cc = "RentTo1" -> gen_cc_rent_to_x(ns, FALSE, handle)
      [] cc = "SetRentInc" -> gen_cc_set_rent_change(ns, TRUE, handle)
      [] cc = "SetRentDec" -> gen_cc_set_rent_change(ns, FALSE, handle)
      [] cc = "SideRentInc" -> gen_cc_side_rent_change(ns, TRUE, handle)
      [] cc = "SideRentDec" -> gen_cc_side_rent_change(ns, FALSE, handle)
      [] cc = "RentSpike" -> gen_cc_rent_spike(ns, handle)
      [] cc = "Bonus" -> gen_cc_bonus(ns, handle)
      [] cc = "SwapProperty" -> gen_cc_swap_property(ns, handle)
      [] cc = "OpponentToJail" -> gen_cc_opponent_to_jail(ns, handle)
      [] cc = "GoToAnyProperty" -> gen_cc_go_to_any_property(ns, handle)

\* gen_choiceful_cc_children without the no-change child.
gen_choiceful_cc_children_bare(ns, handle, cc) == choiceful_cc_children(ns, handle, cc)

\* gen_choiceful_cc_children whose no-change child does not record the card.
gen_choiceful_cc_children_unrecorded(ns, handle, cc) ==
    LET or_single(children) ==
            IF Len(children) > 0
            THEN children
            ELSE << [advance_move(ns, handle, new_with_parent(handle)) EXCEPT
                        !.branch_type = Chance(ONE)] >>
    IN or_single(choiceful_cc_children(ns, handle, cc))

gen_choiceful_cc_children(ns, handle, cc) ==
    LET or_single(children) ==
            IF Len(children) > 0
            THEN children
            ELSE << [new_state_from_cc(ns, cc, handle) EXCEPT !.branch_type = Chance(ONE)] >>
    IN or_single(choiceful_cc_children(ns, handle, cc))

\* gen_cc_children whose child for a choiceful card already records the
\* card as seen and ends the turn.
gen_cc_children_draw_recorded(ns, handle) ==
    LET seen_ccs == diff_seen_ccs(ns, handle)
        definite_cc == seen_ccs[diff_top_cc(ns, handle) + 1]
        unseen_cards == unseen_counts(seen_ccs)
        child(card) ==
            LET probability == <<unseen_cards[card], TOTAL_CHANCE_CARDS - Len(seen_ccs)>>
            IN IF is_choiceless(card)
               THEN gen_choiceless_cc_child(ns, card, handle, probability)
               ELSE [new_state_from_cc(ns, card, handle) EXCEPT
                        !.branch_type = Chance(probability),
                        !.next_move = ChoicefulCC(card)]
    IN IF Len(seen_ccs) = TOTAL_CHANCE_CARDS
       THEN IF is_choiceless(definite_cc)
            THEN << gen_choiceless_cc_child(ns, definite_cc, handle, ONE) >>
            ELSE gen_choiceful_cc_children(ns, handle, definite_cc)
       ELSE SeqMap(child, SelectSeq(CARDS, LAMBDA card : unseen_cards[card] # 0))

gen_cc_children(ns, handle) ==
    LET seen_ccs == diff_seen_ccs(ns, handle)
        definite_cc == seen_ccs[diff_top_cc(ns, handle) + 1]
        unseen_cards == unseen_counts(seen_ccs)
        child(card) ==
            LET probability == <<unseen_cards[card], TOTAL_CHANCE_CARDS - Len(seen_ccs)>>
            IN IF is_choiceless(card)
               THEN gen_choiceless_cc_child(ns, card, handle, probability)
               ELSE [new_with_parent(handle) EXCEPT
                        !.branch_type = Chance(probability),
                        !.next_move = ChoicefulCC(card)]
    IN IF Len(seen_ccs) = TOTAL_CHANCE_CARDS
       THEN IF is_choiceless(definite_cc)
            THEN << gen_choiceless_cc_child(ns, definite_cc, handle, ONE) >>
            ELSE gen_choiceful_cc_children(ns, handle, definite_cc)
       ELSE SeqMap(child, SelectSeq(CARDS, LAMBDA card : unseen_cards[card] # 0))

(***************************************************************************)
(* gen_children: dispatch and the post-processing of every child.           *)
(***************************************************************************)
DecJailRounds(jr) == MapOn(LAMBDA i : IF jr[i] > 0 THEN jr[i] - 1 ELSE 0, DOMAIN jr)

gen_children(ns, handle) ==
    LET next_move == NodeAt(ns, handle).next_move
        children ==
            CASE next_move.mt = "Roll" -> gen_roll_children(ns, handle)
              [] next_move.mt = "ChanceCard" -> gen_cc_children(ns, handle)
              [] next_move.mt = "ChoicefulCC" -> gen_choiceful_cc_children(ns, handle, next_move.cc)
              [] next_move.mt = "Property" -> gen_property_children(ns, handle)
              [] next_move.mt = "SellProperty" -> gen_sell_prop_children(ns, handle)
              [] next_move.mt = "Auction" -> gen_auction_children(ns, handle)
              [] next_move.mt = "Location" -> gen_location_children(ns, handle)
        lvl_1_rent == diff_lvl_1_rent(ns, handle)
        rent_round(child) ==
            IF lvl_1_rent > 0 /\ diff_exists(child, DiffID_CurrentPlayer)
            THEN set_level_1_rent(child, lvl_1_rent - 1)
            ELSE child
        jail_round(child) ==
            LET idx == get_diff_index(child, DiffID_JailRounds)
            IN IF idx # <<>>
               THEN [child EXCEPT !.diffs[idx[1] + 1].val = DecJailRounds(@)]
               ELSE set_jail_rounds(child, DecJailRounds(diff_jail_rounds(ns, handle)))
    IN SeqMap(LAMBDA child : jail_round(rent_round(child)), children)

(***************************************************************************)
(* The arena: append_state, gen_children_save, mark_dirty,                  *)
(* advance_root_node.  A Game is the record [nodes, dirty_handles].         *)
(***************************************************************************)
\* Returns the arena after the push; the new handle is not used by callers.
append_state(g, state) ==
    LET parent == state.parent
        n == Len(g.dirty_handles)
        i == IF n > 0 THEN g.dirty_handles[n] ELSE Len(g.nodes)
        placed == IF n > 0
                  THEN [g.nodes EXCEPT ![i + 1] = state]
                  ELSE Append(g.nodes, state)
    IN [ nodes |-> [placed EXCEPT ![parent + 1].children = Append(@, i)],
         dirty_handles |-> IF n > 0 THEN SubSeq(g.dirty_handles, 1, n - 1) ELSE <<>> ]

\* for child in self.gen_children(handle) { self.append_state(child); }
\* The parent starts with no child, so the child to append next is the one
\* after the children it already has.
RECURSIVE AppendAll(_, _, _)
AppendAll(g, handle, children) ==
    IF Len(NodeAt(g.nodes, handle).children) >= Len(children)
    THEN g
    ELSE AppendAll(append_state(g, children[Len(NodeAt(g.nodes, handle).children) + 1]),
                   handle, children)

gen_children_save(g, handle) ==
    IF Len(NodeAt(g.nodes, handle).children) = 0 /\ ~is_terminal(g.nodes, handle)
    THEN AppendAll([nodes |-> g.nodes, dirty_handles |-> g.dirty_handles], handle,
                   gen_children(g.nodes, handle))
    ELSE [nodes |-> g.nodes, dirty_handles |-> g.dirty_handles]

\* mark_dirty that does not descend into the children.
mark_dirty_shallow(ns, handle) == <<handle>>

\* The handles pushed by mark_dirty(handle), in push order.
RECURSIVE mark_dirty(_, _)
mark_dirty(ns, handle) ==
    <<handle>> \o Flatten(SeqMap(LAMBDA h : mark_dirty(ns, h), NodeAt(ns, handle).children))

\* v.swap_remove(index): the last element takes the place of the removed one.
swap_remove(v, index) ==
    IF index + 1 = Len(v) THEN SubSeq(v, 1, Len(v) - 1)
    ELSE SubSeq([v EXCEPT ![index + 1] = v[Len(v)]], 1, Len(v) - 1)

\* The new root left with the diffs it had as a child.
Materialise_nothing(ns, new_handle, ids) == ns

\* "Ensure the new root node has every diff".
RECURSIVE Materialise(_, _, _)
Materialise(ns, new_handle, ids) ==
    IF ids = <<>> THEN ns
    ELSE LET d == Head(ids)
         IN IF ~diff_exists(NodeAt(ns, new_handle), d)
            THEN Materialise(
                    [ns EXCEPT ![new_handle + 1] = set_diff(@, d, diff_field(ns, new_handle, d))],
                    new_handle, Tail(ids))
            ELSE Materialise(ns, new_handle, Tail(ids))

\* advance_root_node that leaves the new root's parent handle as it was.
advance_root_node_keep_parent(g, child_index) ==
    LET old_root == g.root_handle
        new_handle == NodeAt(g.nodes, old_root).children[child_index + 1]
        ns1 == [g.nodes EXCEPT ![old_root + 1].children = swap_remove(@, child_index)]
    IN [ nodes |-> Materialise(ns1, new_handle, DiffID_all),
         dirty_handles |-> g.dirty_handles \o <<old_root>>
                \o Flatten(SeqMap(LAMBDA h : mark_dirty(ns1, h), NodeAt(ns1, old_root).children)),
         root_handle |-> new_handle,
         move_history |-> Append(g.move_history, child_index),
         root_turn |-> IF diff_exists(NodeAt(ns1, new_handle), DiffID_CurrentPlayer)
                       THEN g.root_turn + 1 ELSE g.root_turn ]

\* A Game is the record of the five fields of the struct.
\* advance_root_node that does not record the move.
advance_root_node_no_history(g, child_index) ==
    [advance_root_node_keep_parent(g, child_index) EXCEPT
        !.move_history = g.move_history,
        !.nodes[NodeAt(g.nodes, g.root_handle).children[child_index + 1] + 1].parent =
            NodeAt(g.nodes, g.root_handle).children[child_index + 1]]

advance_root_node(g, child_index) ==
    LET old_root == g.root_handle
        new_handle == NodeAt(g.nodes, old_root).children[child_index + 1]
        ns1 == [g.nodes EXCEPT ![old_root + 1].children = swap_remove(@, child_index)]
        dirty == g.dirty_handles \o <<old_root>>
                 \o Flatten(SeqMap(LAMBDA h : mark_dirty(ns1, h),
                                   NodeAt(ns1, old_root).children))
        turn == IF diff_exists(NodeAt(ns1, new_handle), DiffID_CurrentPlayer)
                THEN g.root_turn + 1
                ELSE g.root_turn
        ns2 == Materialise(ns1, new_handle, DiffID_all)
    IN [ nodes |-> [ns2 EXCEPT ![new_handle + 1].parent = new_handle],
         dirty_handles |-> dirty,
         root_handle |-> new_handle,
         move_history |-> Append(g.move_history, child_index),
         root_turn |-> turn ]

(***************************************************************************)
(* Game::new and Game::play.                                                *)
(***************************************************************************)
\* Game::new(player_count)
NewGame(player_count) ==
    [ nodes |-> <<new_root(player_count)>>, dirty_handles |-> <<>>, root_handle |-> 0,
      move_history |-> <<>>, root_turn |-> 0 ]

\* play's call gen_children_save(self.root_handle): the root is expanded.
Expand(g) ==
    LET merge(arena) == [g EXCEPT !.nodes = arena.nodes,
                                  !.dirty_handles = arena.dirty_handles]
    IN merge(gen_children_save(g, g.root_handle))

(***************************************************************************)
(* The MCTS agent (agent.rs).                                               *)
(*                                                                         *)
(* total_value is kept as an exact rational.  A rollout plays the game at  *)
(* random to its end and returns the score of the agent there: its outcome *)
(* is an input of the step, drawn from RolloutValues.  The nodes a rollout *)
(* expands on its way are not kept in the arena: the children of a node    *)
(* are a function of its state, so gen_children_save gives the search the  *)
(* same children whether or not a rollout has been there before.           *)
(***************************************************************************)
\* The outcomes of a rollout.
RolloutValues == {<<-1, 1>>, <<1, 1>>}

RLeq(a, b) == a[1] * b[2] <= b[1] * a[2]

MCTreeNode_new(branch_type) ==
    [total_value |-> <<0, 1>>, num_visits |-> 0, branch_type |-> branch_type,
     children |-> <<>>]

\* total_value / num_visits; 0.0 / 0 is NaN.
get_average_value(self) ==
    IF self.num_visits = 0 THEN "NaN"
    ELSE RNorm(<<self.total_value[1], self.total_value[2] * self.num_visits>>)

is_nan(x) == x = "NaN"

\* The 0-based index of the last greatest of `n` elements, where leq[i][j]
\* says that element i is at most element j (Iterator::max_by returns the
\* last of several maxima).
LastMax(n, leq) ==
    (CHOOSE i \in 1 .. n :
        /\ \A j \in 1 .. n : leq[j][i]
        /\ \A j \in (i + 1) .. n : ~leq[i][j]) - 1

\* get_best_child_index that answers one past the last child.
get_best_child_index_past_end(self) == Len(self.children)

\* partial_cmp(..).unwrap() panics on NaN: defined when no average is NaN.
get_best_child_index(self) ==
    LET avg == SeqMap(get_average_value, self.children)
    IN LastMax(Len(avg), [i \in 1 .. Len(avg) |->
                            [j \in 1 .. Len(avg) |-> RLeq(avg[i], avg[j])]])

sync_children_count(self, ns, handle) ==
    LET count == Len(NodeAt(ns, handle).children)
    IN IF Len(self.children) = count THEN self
       ELSE [self EXCEPT !.children =
                SeqMap(LAMBDA c : MCTreeNode_new(NodeAt(ns, c).branch_type),
                       NodeAt(ns, handle).children)]

\* sync_children_count panics: the node has children, but not as many as the
\* game node.
sync_children_panics(self, ns, handle) ==
    /\ Len(self.children) # Len(NodeAt(ns, handle).children)
    /\ Len(self.children) # 0

\* The loop of sync_with_walk over the moves not yet seen.
RECURSIVE Walk(_, _, _)
Walk(self, g, steps) ==
    IF steps = <<>> THEN self
    ELSE IF Len(self.children) = 0
    THEN MCTreeNode_new(NodeAt(g.nodes, g.root_handle).branch_type)
    ELSE Walk(self.children[Head(steps) + 1], g, Tail(steps))

\* sync_with_walk that leaves the tree where the last search left it.
sync_with_walk_stay(self, g, latest_unseen_move) == self

sync_with_walk(self, g, latest_unseen_move) ==
    Walk(self, g, SubSeq(g.move_history, latest_unseen_move + 1, Len(g.move_history)))

\* The UCB1 value of the child `s` of `self`, V + C * sqrt(ln(N) / n), as far
\* as the comparison of siblings goes: infinite when N = 0 or n = 0; the mean
\* V is that of `self`, the same for every child, so with a temperature
\* C > 0 a finite value is greater exactly when n is smaller, and with N = 1
\* (ln(N) = 0) all finite values are equal.
ucb1_same_for_all(self, s) == [infinite |-> FALSE, visits |-> 0]

\* ucb1 whose exploration term grows with the visits of the child.
ucb1_most_visited(self, s) ==
    IF self.num_visits = 0 \/ s.num_visits = 0
    THEN [infinite |-> TRUE, visits |-> 0]
    ELSE [infinite |-> FALSE, visits |-> IF self.num_visits = 1 THEN 0 ELSE 0 - s.num_visits]

ucb1(self, s) ==
    IF self.num_visits = 0 \/ s.num_visits = 0
    THEN [infinite |-> TRUE, visits |-> 0]
    ELSE [infinite |-> FALSE, visits |-> IF self.num_visits = 1 THEN 0 ELSE s.num_visits]

ucb1_leq(a, b) ==
    \/ b.infinite
    \/ ~a.infinite /\ a.visits >= b.visits

\* The index of the child to traverse next.
select_child(self) ==
    LET u == SeqMap(LAMBDA s : ucb1(self, s), self.children)
    IN LastMax(Len(u), [i \in 1 .. Len(u) |->
                          [j \in 1 .. Len(u) |-> ucb1_leq(u[i], u[j])]])

value_multiplier(self) ==
    IF self.branch_type.kind = "Chance" THEN self.branch_type.p ELSE ONE

\* traverse: <<the node afterwards, the arena afterwards, the value returned>>.
RECURSIVE traverse(_, _, _, _)
traverse(self, g, handle, outcome) ==
    LET descend(child_index) ==
            LET back(below) ==
                    [node |-> [self EXCEPT
                                  !.children[child_index + 1] = below.node,
                                  !.num_visits = @ + 1,
                                  !.total_value =
                                      RAdd(@, RMul(below.value, value_multiplier(self)))],
                     g |-> below.g,
                     value |-> below.value]
            IN back(traverse(self.children[child_index + 1], g,
                             NodeAt(g.nodes, handle).children[child_index + 1], outcome))
        expand(arena) ==
            [node |-> sync_children_count(self, arena.nodes, handle),
             g |-> arena,
             value |-> RMul(outcome, value_multiplier(self))]
    IN IF Len(self.children) > 0 THEN descend(select_child(self))
       ELSE IF self.num_visits = 0
       THEN [node |-> [self EXCEPT
                          !.num_visits = @ + 1,
                          !.total_value = RAdd(@, RMul(outcome, value_multiplier(self)))],
             g |-> [nodes |-> g.nodes, dirty_handles |-> g.dirty_handles],
             value |-> outcome]
       ELSE IF is_terminal(g.nodes, handle)
       THEN [node |-> self,
             g |-> [nodes |-> g.nodes, dirty_handles |-> g.dirty_handles],
             value |-> RMul(outcome, value_multiplier(self))]
       ELSE expand(gen_children_save(g, handle))

\* Agent::new_ai: the fields of Agent::Ai that change.
new_ai == [latest_unseen_move |-> 0, mcts_tree |-> MCTreeNode_new(Choice)]

\* The agents of the game: seat 0 is the AI, the others play at random.
AgentKind(pindex) == IF pindex = 0 THEN "Ai" ELSE "Random"

(***************************************************************************)
(* The state machine.                                                       *)
(***************************************************************************)
Game == [ nodes |-> nodes, dirty_handles |-> dirty_handles, root_handle |-> root_handle,
          move_history |-> move_history, root_turn |-> root_turn ]

\* The handles of the subtree of `handle`.
RECURSIVE Subtree(_, _)
Subtree(ns, handle) ==
    {handle} \cup UNION {Subtree(ns, h) : h \in Range(NodeAt(ns, handle).children)}

Live == Subtree(nodes, root_handle)

\* The game `g` is the state.
StartFrom(g) ==
    /\ nodes = g.nodes
    /\ dirty_handles = g.dirty_handles
    /\ root_handle = g.root_handle
    /\ move_history = g.move_history
    /\ root_turn = g.root_turn
    /\ played = 0
    /\ agent = new_ai
    /\ pc = "play"
    /\ choice = 0
    /\ traversals = 0

\* get_combinations has not been called.
NoCombinations ==
    /\ comb_n = 1
    /\ comb_k = 1
    /\ comb_curr = <<>>
    /\ combinations = <<>>
    /\ comb_pc = "call"

Init == StartFrom(NewGame(PlayerCount)) /\ NoCombinations

\* The live nodes that have been expanded.
Expanded == {h \in Live : Len(NodeAt(nodes, h).children) > 0}

\* gen_children_save(handle), called by play on the root and by the agents'
\* traverse and rollout on any node reached from the root.
GenChildrenSave(handle) ==
    /\ Len(NodeAt(nodes, handle).children) = 0
    /\ Cardinality(Expanded) < MaxExpanded
    /\ \E g \in {gen_children_save(Game, handle)} :
        /\ Len(g.nodes) <= MaxNodes
        /\ nodes' = g.nodes
        /\ dirty_handles' = g.dirty_handles
    /\ UNCHANGED <<root_handle, move_history, root_turn, played>>
    /\ UNCHANGED agent_vars
    /\ UNCHANGED comb_vars

\* One iteration of play after the root has been expanded: the chosen child
\* (by chance or by the agent) becomes the root.
AdvanceRootNode(child_index) ==
    /\ played < MaxMoves
    /\ ~is_terminal(nodes, root_handle)
    /\ \E g \in {advance_root_node(Game, child_index)} :
        /\ nodes' = g.nodes
        /\ dirty_handles' = g.dirty_handles
        /\ root_handle' = g.root_handle
        /\ move_history' = g.move_history
        /\ root_turn' = g.root_turn
    /\ played' = played + 1
    /\ UNCHANGED agent_vars
    /\ UNCHANGED comb_vars

Next ==
    \/ \E handle \in Live : GenChildrenSave(handle)
    \/ \E child_index \in 0 .. (Len(NodeAt(nodes, root_handle).children) - 1) :
            AdvanceRootNode(child_index)

Spec == Init /\ [][Next]_vars

(***************************************************************************)
(* Recorded games.  Each history is the move_history of a two-player game  *)
(* played from Game::new; play follows them pick by pick.                  *)
(***************************************************************************)
\* An unowned property is up for auction.
HistoryAuction == <<10, 1>>
\* The Level1Rent card has been drawn.
HistoryLevel1Rent == <<6, 12>>
\* The player to roll has rolled two doubles in a row.
HistoryTwoDoubles == <<12, 0, 10>>
\* The player to roll is in jail with no jail round left.
HistoryJailNoRound == <<12, 0, 12, 12, 12, 9>>
\* Both players are in jail with jail rounds left.
HistoryJailRounds == <<5, 12, 1, 9, 2, 13, 8, 0, 1, 9>>
\* A chance card is drawn while both players own properties.
HistoryChanceCard == <<14, 0, 5, 0, 11, 1, 5, 11>>
\* A debtor whose only property covers the debt.
HistorySellOnly == <<3, 1, 9, 10, 1, 2, 14, 10, 13, 0, 3, 14, 2, 3, 13, 10, 7, 0>>
\* A debtor whose two properties cover the debt only together.
HistorySellAll == <<4, 1, 2, 3, 1, 4, 11, 2, 0, 11, 0, 12, 0>>
\* A debtor with four properties, one of which covers the debt.
HistorySellSome ==
    <<11, 0, 14, 0, 5, 0, 11, 5, 0, 1, 1, 8, 8, 1, 2, 8, 5, 0, 12, 14, 9, 0, 5, 0, 14, 6, 0>>
\* A debtor whose properties do not cover the debt.
HistorySellBroke ==
    <<1, 1, 2, 5, 7, 1, 3, 11, 0, 12, 0, 3, 0, 11, 0, 8, 7, 0, 12, 0, 11, 0, 5, 0, 9, 11,
      19, 0, 7, 2, 14, 0>>
\* A debtor who owns nothing.
HistorySellNone ==
    <<11, 1, 6, 6, 5, 0, 14, 20, 0, 10, 14, 1, 5, 8, 1, 5, 0, 11, 4, 2, 1, 8, 7, 0, 11, 0,
      3, 0, 9, 0, 8, 20, 0, 9, 0, 13, 0, 2, 0, 7, 1, 0, 11, 6, 0, 12, 0, 8, 1, 5, 6, 3, 1,
      0, 6, 5, 0, 11, 0, 3, 1, 5, 2, 7, 0>>
\* Every chance card has been seen.
HistoryFullDeck ==
    <<6, 7, 0, 5, 13, 13, 5, 0, 0, 9, 16, 0, 1, 8, 0, 3, 13, 1, 0, 8, 5, 0, 14, 7, 4, 1, 0,
      5, 2, 0, 9, 5, 9, 0, 0, 9, 3, 0, 9, 2, 0, 14, 2, 0, 4, 1, 0, 13, 0, 0, 0, 2, 0, 5, 2,
      0, 5, 1, 0, 9, 0, 0>>
\* The game is over; the winner is in jail, short of the fee for leaving it.
HistoryGameOver ==
    <<4, 1, 4, 12, 0, 1, 1, 6, 10, 1, 2, 11, 0, 7, 0, 0, 7, 13, 0, 0, 2, 0, 3, 1, 2, 3, 10,
      10, 0, 12, 0, 0, 1, 5, 11>>
\* RentTo1 is drawn while a property stands above rent level 1.
HistoryRentTo1 ==
    <<14, 1, 9, 5, 1, 4, 12, 1, 1, 14, 0, 5, 6, 6, 0, 6, 5, 0, 3, 5, 0, 1, 2, 1, 0, 0, 13,
      3, 0>>

\* A debtor with several properties, no one of which covers the debt.
HistorySellTwo ==
    <<13, 3, 0, 0, 1, 0, 6, 0, 0, 9, 5, 0, 0, 13, 1, 6, 2, 0, 10, 1, 1, 8, 14, 9, 1, 8,
      9, 2, 0, 0, 9, 0, 0, 4, 12, 5, 0, 12, 10, 10, 12, 12, 2, 5, 0, 1, 3, 0, 0, 4, 6,
      12, 0, 9, 2, 3, 8, 12, 1, 3, 14, 0, 11, 13, 0, 0, 14, 0, 3, 0, 13, 1, 2, 6, 1, 8,
      0, 0, 3, 12, 3, 0, 5, 12, 5, 1, 3, 9, 0, 7, 7, 0, 2, 4, 41, 4, 14, 0, 3, 0, 8, 1,
      12, 0, 13, 0, 3, 0, 3, 0>>

\* The player on an unowned property has exactly its price.
HistoryExactPrice == <<4, 1, 9, 3, 1, 3, 13, 1, 2, 4, 4, 0, 3>>

\* The player on an opponent's property cannot pay the rent.
HistoryRentDebt == SubSeq(HistorySellSome, 1, Len(HistorySellSome) - 1)
\* The player is on an opponent's property of rent level 5.
HistoryRentLevel5 == <<12, 1, 5, 10, 1, 1, 4, 11, 0, 10, 12, 8, 0, 0, 1, 1, 0, 13>>
\* The player is on an opponent's property above level 1 while rounds of
\* level-1 rent remain.
HistoryRentLevel1 == <<12, 1, 5, 10, 1, 1, 4, 11, 0, 10, 12, 8, 0, 0, 13>>

\* An auction is pending while one player has less than the smallest bid.
HistoryPoorBidder ==
    <<10, 1, 0, 8, 1, 9, 4, 9, 0, 7, 0, 1, 5, 8, 0, 3, 0, 2, 0, 6, 12, 15, 0,
      14, 3, 0, 9, 0, 6, 10, 1>>

\* An auction is pending while no player has the smallest bid.
HistoryNoBidder ==
    <<5, 1, 1, 2, 1, 0, 3, 1, 1, 5, 0, 6, 0, 0, 1, 0, 2, 2, 0, 5, 17, 1, 4, 14,
      1, 6, 9, 0, 6, 6, 5, 1, 14, 0, 6, 8, 1, 5, 12, 0, 6, 2, 0, 2, 4, 3, 0, 2,
      0, 0>>

\* An auction is pending while a player can bid no more than their whole
\* balance.
HistorySmallBidder == <<8, 1, 4, 3, 6, 0, 9, 0, 0, 3, 5, 22, 4, 0>>

Histories ==
    { <<>>, HistoryAuction, HistoryLevel1Rent, HistoryTwoDoubles, HistoryJailNoRound,
      HistoryJailRounds, HistoryChanceCard, HistorySellOnly, HistorySellAll,
      HistorySellSome, HistorySellBroke, HistorySellNone, HistoryFullDeck,
      HistoryGameOver, HistoryRentTo1,
      HistorySellTwo, HistoryExactPrice, HistoryRentDebt, HistoryRentLevel5,
      HistoryRentLevel1, HistoryPoorBidder, HistoryNoBidder,
      HistorySmallBidder }

\* One iteration of the loop of play on a recorded game: the root is expanded
\* and the child picked next in the history (by get_any_chance_child or by
\* the agent's make_choice) becomes the root.
FollowHistory(h) ==
    /\ played = 0
    /\ Len(move_history) < Len(h)
    /\ SubSeq(h, 1, Len(move_history)) = move_history
    /\ ~is_terminal(nodes, root_handle)
    /\ \E e \in {Expand(Game)} :
        /\ h[Len(move_history) + 1] < Len(NodeAt(e.nodes, e.root_handle).children)
        /\ \E g \in {advance_root_node(e, h[Len(move_history) + 1])} :
            /\ nodes' = g.nodes
            /\ dirty_handles' = g.dirty_handles
            /\ root_handle' = g.root_handle
            /\ move_history' = g.move_history
            /\ root_turn' = g.root_turn
    /\ UNCHANGED played
    /\ UNCHANGED agent_vars
    /\ UNCHANGED comb_vars

\* play's call gen_children_save(self.root_handle).
ExpandRoot ==
    /\ Len(NodeAt(nodes, root_handle).children) = 0
    /\ \E g \in {gen_children_save(Game, root_handle)} :
        /\ nodes' = g.nodes
        /\ dirty_handles' = g.dirty_handles
    /\ UNCHANGED <<root_handle, move_history, root_turn, played>>
    /\ UNCHANGED agent_vars
    /\ UNCHANGED comb_vars

\* The recorded game has been played to its end; `played` counts the moves
\* made since.
HistoryPlayed == played > 0 \/ move_history \in Histories

PlayNext ==
    \/ \E h \in Histories : FollowHistory(h)
    \/ HistoryPlayed /\ ExpandRoot
    \/ HistoryPlayed /\ \E child_index \in 0 .. (Len(NodeAt(nodes, root_handle).children) - 1) :
            AdvanceRootNode(child_index)

\* The loop of play: along the recorded games, then every continuation of
\* MaxMoves moves.
PlaySpec == Init /\ [][PlayNext]_vars

(***************************************************************************)
(* Play with the MCTS agent in seat 0: Game::play and Agent::ai_choice,     *)
(* one iteration of their loops per step.                                   *)
(***************************************************************************)
\* The root is advanced at most MaxSearchMoves times.
MaxSearchMoves == 4
\* The time budget of ai_choice runs out after at most MaxTraversals
\* iterations of its loop.
MaxTraversals == 6
\* Of these moves, the first MaxChanceMoves may be chance moves.
MaxChanceMoves == 3
\* ai_choice is followed where the root has at most MaxChoices children.
MaxChoices == 3

\* The kind of branch play is at: that of the first child of the root.
NextBranch(g) == NodeAt(g.nodes, NodeAt(g.nodes, g.root_handle).children[1]).branch_type.kind

\* `g` becomes the game.
Becomes(g) ==
    /\ nodes' = g.nodes
    /\ dirty_handles' = g.dirty_handles
    /\ root_handle' = g.root_handle
    /\ move_history' = g.move_history
    /\ root_turn' = g.root_turn

\* play, a chance branch: get_any_chance_child picks a child that has some
\* chance, and the root advances to it.
PlayChance ==
    /\ pc = "play"
    /\ played < MaxChanceMoves
    /\ ~is_terminal(nodes, root_handle)
    /\ \E e \in {Expand(Game)} :
        /\ NextBranch(e) = "Chance"
        /\ \E child_index \in 0 .. (Len(NodeAt(e.nodes, e.root_handle).children) - 1) :
            /\ NodeAt(e.nodes, NodeAt(e.nodes, e.root_handle).children[child_index + 1])
                    .branch_type.p[1] > 0
            /\ Becomes(advance_root_node(e, child_index))
    /\ played' = played + 1
    /\ UNCHANGED agent_vars
    /\ UNCHANGED comb_vars

\* play, a choice of a seat that plays at random: random_choice answers any
\* index, and the root advances to it.
RandomChoice ==
    /\ pc = "play"
    /\ played < MaxSearchMoves
    /\ ~is_terminal(nodes, root_handle)
    /\ AgentKind(diff_current_pindex(nodes, root_handle)) = "Random"
    /\ \E e \in {Expand(Game)} :
        /\ NextBranch(e) = "Choice"
        /\ \E child_index \in 0 .. (Len(NodeAt(e.nodes, e.root_handle).children) - 1) :
            Becomes(advance_root_node(e, child_index))
    /\ played' = played + 1
    /\ UNCHANGED agent_vars
    /\ UNCHANGED comb_vars

\* play, a choice of the AI: ai_choice up to its loop. The tree is walked
\* along the moves made since the last call, the root is expanded and the
\* tree is given the children of the root.
AiBegin ==
    /\ pc = "play"
    /\ played < MaxSearchMoves
    /\ ~is_terminal(nodes, root_handle)
    /\ AgentKind(diff_current_pindex(nodes, root_handle)) = "Ai"
    /\ \E e \in {Expand(Game)} :
        /\ NextBranch(e) = "Choice"
        /\ Len(NodeAt(e.nodes, e.root_handle).children) <= MaxChoices
        /\ \E walked \in {sync_with_walk(agent.mcts_tree, e, agent.latest_unseen_move)} :
            /\ ~sync_children_panics(walked, e.nodes, e.root_handle)
            /\ agent' = [latest_unseen_move |-> Len(e.move_history),
                         mcts_tree |-> sync_children_count(walked, e.nodes, e.root_handle)]
        /\ Becomes(e)
    /\ pc' = "search"
    /\ traversals' = 0
    /\ UNCHANGED <<played, choice>>
    /\ UNCHANGED comb_vars

\* Some child of the root of the search tree has never been visited.
AnyNan == \E k \in 1 .. Len(agent.mcts_tree.children) :
                is_nan(get_average_value(agent.mcts_tree.children[k]))

\* One iteration of the loop of ai_choice: the time is not up, or a child of
\* the root has no average yet.
Traverse(outcome) ==
    /\ pc = "search"
    /\ traversals < MaxTraversals \/ AnyNan
    /\ \E r \in {traverse(agent.mcts_tree, Game, root_handle, outcome)} :
        /\ agent' = [agent EXCEPT !.mcts_tree = r.node]
        /\ nodes' = r.g.nodes
        /\ dirty_handles' = r.g.dirty_handles
    /\ traversals' = traversals + 1
    /\ UNCHANGED <<root_handle, move_history, root_turn, played, pc, choice>>
    /\ UNCHANGED comb_vars

\* The loop of ai_choice ends, the time being up and every child of the root
\* having an average: ai_choice returns get_best_child_index.
AiReturn ==
    /\ pc = "search"
    /\ ~AnyNan
    /\ choice' = get_best_child_index(agent.mcts_tree)
    /\ pc' = "chosen"
    /\ UNCHANGED <<nodes, dirty_handles, root_handle, move_history, root_turn, played,
                   agent, traversals>>
    /\ UNCHANGED comb_vars

\* play advances the root to the child ai_choice has returned.
PlayChoice ==
    /\ pc = "chosen"
    /\ Becomes(advance_root_node(Game, choice))
    /\ played' = played + 1
    /\ pc' = "play"
    /\ UNCHANGED <<agent, choice, traversals>>
    /\ UNCHANGED comb_vars

SearchNext ==
    \/ PlayChance
    \/ RandomChoice
    \/ AiBegin
    \/ \E outcome \in RolloutValues : Traverse(outcome)
    \/ AiReturn
    \/ PlayChoice

SearchSpec == Init /\ [][SearchNext]_vars

(***************************************************************************)
(* Properties of the arena.                                                 *)
(***************************************************************************)
Handles == 0 .. (Len(nodes) - 1)
Dirty == Range(dirty_handles)
Root == NodeAt(nodes, root_handle)

\* The children of `handle`, as nodes, in the order of its children list.
Kids(handle) == SeqMap(LAMBDA c : NodeAt(nodes, c), NodeAt(nodes, handle).children)

\* C1: the arena is partitioned. Every index of nodes is in the subtree of
\* the root or exactly once in dirty_handles, never both, so the live handles
\* and the free list together count every node; no live node's parent or
\* children list refers to a handle on the free list.
ArenaPartitioned ==
    /\ Live \subseteq Handles
    /\ \A h \in Handles : (h \in Live) # (h \in Dirty)
    /\ Cardinality(Dirty) = Len(dirty_handles)
    /\ Cardinality(Live) + Len(dirty_handles) = Len(nodes)
    /\ \A h \in Live :
        /\ NodeAt(nodes, h).parent \notin Dirty
        /\ Range(NodeAt(nodes, h).children) \cap Dirty = {}

\* The root has been advanced, and its expansion has taken handles from the
\* free list (a pushed node gets a handle above every older one) while other
\* handles stay free.
ArenaReused ==
    /\ played >= 1
    /\ dirty_handles # <<>>
    /\ \E c \in Range(Root.children) : c < root_handle

\* C2: the root node is self-contained in every reachable state, so after
\* every advance_root_node: it overrides all seven tracked fields, in the
\* order of the DiffIDs, and its parent handle is itself.
RootSelfContained ==
    /\ Root.parent = root_handle
    /\ Len(Root.diffs) = Len(DiffID_all)
    /\ \A d \in Range(DiffID_all) :
        /\ diff_exists(Root, d)
        /\ Root.diffs[get_supposed_diff_index(Root, d) + 1].id = d

\* A child that overrode only some of the fields has become the root.
RootAdvanced ==
    /\ played >= 1
    /\ root_handle # 0
    /\ Len(move_history) >= 1
    /\ diff_exists(Root, DiffID_SeenCcs)
    /\ Root.parent = root_handle

\* The lookup of diff_id from h: through live nodes only, no handle twice, to
\* a node that overrides the field.
RECURSIVE ChainEnds(_, _, _, _)
ChainEnds(live, h, diff_id, visited) ==
    /\ h \in live \ visited
    /\ \/ diff_exists(NodeAt(nodes, h), diff_id)
       \/ ChainEnds(live, NodeAt(nodes, h).parent, diff_id, visited \cup {h})

\* C3: for every live handle h and every field, diff_field follows parent
\* handles through live nodes only, visits no handle twice and ends at a node
\* that overrides the field.
DiffChainsEnd ==
    \A h \in Live : \A d \in Range(DiffID_all) : ChainEnds(Live, h, d, {})

\* After an advance, a field of a grandchild of the root is found two parents
\* up, at the root itself.
LongChain ==
    /\ played >= 1
    /\ \E h \in Live : \E d \in Range(DiffID_all) :
        LET parent == NodeAt(nodes, h).parent
        IN /\ parent \notin {h, root_handle}
           /\ ~diff_exists(NodeAt(nodes, h), d)
           /\ ~diff_exists(NodeAt(nodes, parent), d)
           /\ NodeAt(nodes, parent).parent = root_handle

(***************************************************************************)
(* Properties of the expansion.                                             *)
(***************************************************************************)
AllOfKind(kids, kind) == \A k \in 1 .. Len(kids) : kids[k].branch_type.kind = kind

\* C4: the probabilities of the Chance children of every expanded node sum
\* to exactly 1.
ChanceSumsToOne ==
    \A h \in Expanded :
        (\E k \in 1 .. Len(Kids(h)) : Kids(h)[k].branch_type.kind = "Chance")
            => REq(RSum(SeqMap(LAMBDA kid : kid.branch_type.p, Kids(h))), ONE)

\* An auction has been expanded into the bids of several winners.
AuctionExpanded ==
    \E h \in Expanded :
        /\ NodeAt(nodes, h).next_move.mt = "Auction"
        /\ Len(Kids(h)) > 5
        /\ AllOfKind(Kids(h), "Chance")

\* C5: the children of every expanded node are all Choice or all Chance, and
\* none has an Undefined pending move.
UniformChildren ==
    \A h \in Expanded :
        /\ AllOfKind(Kids(h), "Choice") \/ AllOfKind(Kids(h), "Chance")
        /\ \A k \in 1 .. Len(Kids(h)) : Kids(h)[k].next_move.mt # "Undefined"

\* A Location tile has been expanded into its teleports and the choice to stay.
LocationExpanded ==
    \E h \in Expanded :
        /\ NodeAt(nodes, h).next_move.mt = "Location"
        /\ Len(Kids(h)) = Cardinality(PROP_POSITIONS) + 1
        /\ AllOfKind(Kids(h), "Choice")

\* C6: a root that is not terminal expands to at least one child, in every
\* reachable state, so after every advance_root_node.
RootExpands ==
    is_terminal(nodes, root_handle) \/ Len(gen_children(nodes, root_handle)) >= 1

\* After an advance the root holds a choiceful chance card that changes
\* nothing, and has been expanded to the single no-change child.
NoChangeCardExpanded ==
    /\ played >= 1
    /\ Root.next_move.mt = "ChoicefulCC"
    /\ Len(Root.children) = 1
    /\ AllOfKind(Kids(root_handle), "Chance")

Negative(handle) ==
    {i \in DOMAIN diff_players(nodes, handle) : diff_players(nodes, handle)[i].balance < 0}

\* C7: at most one player has a negative balance, in every node of every
\* reachable state.
AtMostOneNegative == \A h \in Live : Cardinality(Negative(h)) <= 1

\* Play has reached a terminal state: one player is negative.
GameLost ==
    /\ played >= 1
    /\ is_terminal(nodes, root_handle)
    /\ Cardinality(Negative(root_handle)) = 1

\* The expanded Roll nodes whose roller is out of jail with two doubles.
TwoDoublesRolled ==
    {h \in Expanded :
        /\ NodeAt(nodes, h).next_move.mt = "Roll"
        /\ ~get_current_player(nodes, h).in_jail
        /\ get_current_player(nodes, h).doubles_rolled = 2}

\* The children of h for the rolls that are doubles, as handles.
DoubleKids(h) ==
    {NodeAt(nodes, h).children[k] : k \in {j \in 1 .. Len(SIGNIFICANT_ROLLS) :
                                                SIGNIFICANT_ROLLS[j].is_double}}

\* C8: every player's doubles_rolled is in 0..2 in every node, and the child
\* of a third double in a row has the roller on the jail tile, in jail, with
\* doubles_rolled 0.
DoublesBounded ==
    /\ \A h \in Live : \A i \in DOMAIN diff_players(nodes, h) :
            diff_players(nodes, h)[i].doubles_rolled \in 0 .. 2
    /\ \A h \in TwoDoublesRolled : \A c \in DoubleKids(h) :
            LET roller == diff_players(nodes, c)[diff_current_pindex(nodes, h)]
            IN /\ roller.position = JAIL_POSITION
               /\ roller.in_jail
               /\ roller.doubles_rolled = 0

\* A roll after two doubles in a row has been expanded.
ThirdDoubleExpanded == TwoDoublesRolled # {}

\* C9: the child of a third double in a row has JAIL_TRIES - 1 as the
\* roller's jail rounds, that is JAIL_TRIES before the decrement every child
\* gets.
ThirdDoubleJailRounds ==
    \A h \in TwoDoublesRolled : \A c \in DoubleKids(h) :
        diff_jail_rounds(nodes, c)[diff_current_pindex(nodes, h)] = JAIL_TRIES - 1

\* The list prices of the properties of the current player of h.
Worth(h) ==
    SumSeq(SeqMap(LAMBDA pos : PROPERTIES[pos].price, SortedSeq(get_current_props(nodes, h))))

\* C10: an expanded SellProperty node has the single Chance(1) game-over
\* child if and only if the debtor's balance plus the list prices of all the
\* debtor's properties is negative; otherwise its children are Choice sales.
SellGameOverIff ==
    \A h \in Expanded :
        NodeAt(nodes, h).next_move.mt = "SellProperty" =>
            IF get_current_player(nodes, h).balance + Worth(h) < 0
            THEN Len(Kids(h)) = 1 /\ Kids(h)[1].branch_type = Chance(ONE)
            ELSE AllOfKind(Kids(h), "Choice")


(***************************************************************************)
(* Properties of the chance-card deck along play.                           *)
(***************************************************************************)
\* The root after the step.
NextRoot == NodeAt(nodes', root_handle')

\* A step of play: the root moves to one of its children.
RootMoves == move_history' # move_history

WithinDeck(seen) == \A c \in Range(CARDS) : Occurrences(seen, c) <= DECK_COUNTS[c]

\* The step of play resolves a chance-card draw: a choiceful card is carried
\* out, or a card is drawn and not left pending as a choiceful card.
ResolvesDraw ==
    /\ RootMoves
    /\ \/ Root.next_move.mt = "ChoicefulCC"
       \/ Root.next_move.mt = "ChanceCard" /\ NextRoot.next_move.mt # "ChoicefulCC"

\* The step, one that resolves a draw, treats the deck as the draw of `card`.
DrawOf(card) ==
    LET seen == diff_seen_ccs(nodes, root_handle)
        top_cc == diff_top_cc(nodes, root_handle)
        seen2 == diff_seen_ccs(nodes', root_handle')
        top_cc2 == diff_top_cc(nodes', root_handle')
    IN IF Len(seen) < TOTAL_CHANCE_CARDS
       THEN /\ seen2 = Append(seen, card)
            /\ top_cc = 0 /\ top_cc2 = 0
            /\ WithinDeck(seen2)
       ELSE /\ seen2 = seen
            /\ card = seen[top_cc + 1]
            /\ top_cc2 = (top_cc + 1) % TOTAL_CHANCE_CARDS

\* The pending moves a resolved card leaves behind.
Resolved(card, move) ==
    IF card = "GoToAnyProperty" THEN move.mt = "Property"
    ELSE move.mt \in {"Roll", "SellProperty"}

\* C11: along any play, a step that resolves a chance-card draw appends
\* exactly one card to seen_ccs while fewer than 21 cards have been seen
\* (top_cc stays 0, seen_ccs stays within the deck), and once all 21 have been
\* seen it leaves seen_ccs unchanged, resolves seen_ccs[top_cc] and sets
\* top_cc to (top_cc + 1) mod 21; every other step leaves both unchanged.
DeckStep ==
    /\ ResolvesDraw =>
            \E card \in Range(CARDS) :
                /\ DrawOf(card)
                /\ Root.next_move.mt = "ChoicefulCC" => card = Root.next_move.cc
                /\ Resolved(card, NextRoot.next_move)
    /\ ~ResolvesDraw =>
            /\ diff_seen_ccs(nodes', root_handle') = diff_seen_ccs(nodes, root_handle)
            /\ diff_top_cc(nodes', root_handle') = diff_top_cc(nodes, root_handle)
DeckBookkeeping == [][DeckStep]_vars

\* Play has drawn cards after the whole deck was seen: top_cc has advanced.
TopCcAdvanced ==
    /\ Len(diff_seen_ccs(nodes, root_handle)) = TOTAL_CHANCE_CARDS
    /\ diff_top_cc(nodes, root_handle) >= 1


(***************************************************************************)
(* Properties of the roll of a player who is not in jail.                   *)
(***************************************************************************)
\* The expanded Roll nodes whose roller is not in jail.
FreeRolls ==
    {h \in Expanded : /\ NodeAt(nodes, h).next_move.mt = "Roll"
                      /\ ~get_current_player(nodes, h).in_jail}

NextSeat(h) == (diff_current_pindex(nodes, h) + 1) % Cardinality(DOMAIN diff_players(nodes, h))

\* The turn passes in child c of h exactly when c's pending move is Roll and
\* the roller's doubles counter in c is 0, and then to the next seat.
TurnPasses(h, c) ==
    LET i == diff_current_pindex(nodes, h)
        passes == /\ NodeAt(nodes, c).next_move.mt = "Roll"
                  /\ diff_players(nodes, c)[i].doubles_rolled = 0
    IN diff_current_pindex(nodes, c) = IF passes THEN NextSeat(h) ELSE i

\* Child c of h is the outcome of `roll` without any trip to jail.
PlainRoll(h, c, roll) ==
    LET i == diff_current_pindex(nodes, h)
        before == diff_players(nodes, h)[i]
        after == diff_players(nodes, c)[i]
    IN /\ NodeAt(nodes, c).branch_type = Chance(roll.probability)
       /\ after.position = (before.position + roll.sum) % BOARD_SIZE
       /\ NodeAt(nodes, c).next_move = when_landed_on(after.position)
       /\ after.doubles_rolled = IF roll.is_double THEN before.doubles_rolled + 1 ELSE 0
       /\ TurnPasses(h, c)

\* Child c of h is the outcome of a roll that ends in jail.
JailRoll(h, c, roll) ==
    LET i == diff_current_pindex(nodes, h)
        after == diff_players(nodes, c)[i]
    IN /\ NodeAt(nodes, c).branch_type = Chance(roll.probability)
       /\ after.position = JAIL_POSITION
       /\ after.in_jail
       /\ after.doubles_rolled = 0
       /\ NodeAt(nodes, c).next_move = when_landed_on(JAIL_POSITION)
       /\ TurnPasses(h, c)

\* The roll sends the roller of h to jail: the go-to-jail tile, or a third
\* double in a row.
EndsInJail(h, roll) ==
    LET before == get_current_player(nodes, h)
    IN \/ (before.position + roll.sum) % BOARD_SIZE = GO_TO_JAIL_POSITION
       \/ roll.is_double /\ before.doubles_rolled = 2

\* C14, as amended: a roller who is not in jail has one child per significant
\* roll, 15 of them (six doubles, nine sums that are not doubles). A child
\* whose roll neither lands on the go-to-jail tile nor is a third double moves
\* the roller by the dice sum, has the tile class of the new position as its
\* pending move, counts the double or resets the counter, and passes the turn
\* to the next seat iff its pending move is Roll and the roller's counter is
\* 0; the other children have the roller in jail with the counter at 0.
RollChildren ==
    \A h \in FreeRolls :
        /\ Len(NodeAt(nodes, h).children) = Len(SIGNIFICANT_ROLLS)
        /\ Len(SIGNIFICANT_ROLLS) = 15
        /\ \A k \in 1 .. Len(SIGNIFICANT_ROLLS) :
                IF EndsInJail(h, SIGNIFICANT_ROLLS[k])
                THEN JailRoll(h, NodeAt(nodes, h).children[k], SIGNIFICANT_ROLLS[k])
                ELSE PlainRoll(h, NodeAt(nodes, h).children[k], SIGNIFICANT_ROLLS[k])

\* The first roll of the game is expanded: from tile 0 the double (1,1) has
\* probability 1/36 and leaves player 0 on tile 2 with one double, a chance
\* card to draw and the turn.
FirstRollExpanded ==
    /\ move_history = <<>>
    /\ root_handle \in FreeRolls
    /\ Kids(root_handle)[1].branch_type = Chance(<<1, 36>>)
    /\ Kids(root_handle)[1].next_move = Move("ChanceCard")
    /\ diff_players(nodes, Root.children[1])[0] =
            [NewPlayer EXCEPT !.position = 2, !.doubles_rolled = 1]
    /\ diff_current_pindex(nodes, Root.children[1]) = 0

\* C14, as stated: a roller who is not in jail has 11 Roll children, each
\* moving the roller by the dice sum.
ElevenRollChildren ==
    \A h \in FreeRolls :
        /\ Len(NodeAt(nodes, h).children) = 11
        /\ \A k \in 1 .. Len(NodeAt(nodes, h).children) :
                \E roll \in Range(SIGNIFICANT_ROLLS) :
                    PlainRoll(h, NodeAt(nodes, h).children[k], roll)


(***************************************************************************)
(* Properties of the choiceful chance cards.                                *)
(***************************************************************************)
\* The card that the expansion of h carries out, "None" if it carries out
\* none: the pending choiceful card, or the top card of a deck seen in full.
CardOf(h) ==
    LET node == NodeAt(nodes, h)
        seen == diff_seen_ccs(nodes, h)
    IN IF node.next_move.mt = "ChoicefulCC" THEN node.next_move.cc
       ELSE IF node.next_move.mt = "ChanceCard" /\ Len(seen) = TOTAL_CHANCE_CARDS
       THEN seen[diff_top_cc(nodes, h) + 1]
       ELSE "None"

\* The expanded nodes that carry out `card`.
Carrying(card) == {h \in Expanded : CardOf(h) = card}

\* The children of h that are choices, as handles.
ChoiceKids(h) ==
    {NodeAt(nodes, h).children[k] : k \in {j \in 1 .. Len(NodeAt(nodes, h).children) :
                                            Kids(h)[j].branch_type.kind = "Choice"}}

\* The properties that RentTo5 or RentTo1 may be played on at h.
RentTargets(h, target_rent) ==
    LET owned == diff_owned_properties(nodes, h)
    IN {pos \in DOMAIN owned :
            /\ owned[pos].rent_level # target_rent
            /\ target_rent = 5 => owned[pos].owner = diff_current_pindex(nodes, h)}

\* The Choice children of h are one per target, each setting only the rent
\* level of its target.
OnePerTarget(h, target_rent) ==
    LET owned == diff_owned_properties(nodes, h)
        sets(pos) == {c \in ChoiceKids(h) :
                        diff_owned_properties(nodes, c) =
                            [owned EXCEPT ![pos].rent_level = target_rent]}
    IN /\ Cardinality(ChoiceKids(h)) = Cardinality(RentTargets(h, target_rent))
       /\ \A pos \in RentTargets(h, target_rent) : Cardinality(sets(pos)) = 1
       /\ \A pos \in DOMAIN owned \ RentTargets(h, target_rent) :
                \A c \in ChoiceKids(h) :
                    diff_owned_properties(nodes, c)[pos] = owned[pos]

\* C15: RentTo5 has exactly one Choice child per property of the current
\* player with a rent level below 5, setting only that property to 5, and none
\* for an opponent's property or a property at 5; RentTo1 has exactly one
\* Choice child per owned property, of any owner, with a rent level above 1,
\* setting only that property to 1.
RentToX ==
    /\ \A h \in Carrying("RentTo5") : OnePerTarget(h, 5)
    /\ \A h \in Carrying("RentTo1") : OnePerTarget(h, 1)

\* RentTo5 is carried out where the current player has a property to raise
\* and an opponent has one below level 5.
RentTo5Expanded ==
    \E h \in Carrying("RentTo5") :
        /\ RentTargets(h, 5) # {}
        /\ \E pos \in DOMAIN diff_owned_properties(nodes, h) :
                /\ diff_owned_properties(nodes, h)[pos].owner # diff_current_pindex(nodes, h)
                /\ diff_owned_properties(nodes, h)[pos].rent_level < 5


(***************************************************************************)
(* Properties of Player::move_by.                                           *)
(***************************************************************************)
\* The greatest distance of a move: the sum of two dice.
MaxDistance == 12

\* The players of the live nodes: the values move_by is applied to.
LivePlayers ==
    UNION {{diff_players(nodes, h)[i] : i \in DOMAIN diff_players(nodes, h)} : h \in Live}

\* move_by(distance) on `self` does what C16 says.
MovesRight(self, distance) ==
    LET moved == move_by(self, distance)
        wraps == moved.position < self.position
    IN /\ moved.position = (self.position + distance) % 36
       /\ moved.balance = self.balance + (IF wraps THEN 200 ELSE 0)
       /\ wraps <=> self.position + distance >= 36
       /\ moved.in_jail = (self.in_jail /\ distance = 0)
       /\ moved.doubles_rolled = self.doubles_rolled
       /\ distance = 0 => moved = self

\* C16: move_by(d), 0 <= d <= 12, sets the position to (old + d) mod 36,
\* credits exactly 200 iff the move wraps past tile 0 (new position < old
\* position) and clears in_jail iff d # 0; move_by(0) changes nothing. Tile 34
\* moved by 5 is tile 3 with 200 more.
MoveBy ==
    /\ \A self \in LivePlayers : \A distance \in 0 .. MaxDistance : MovesRight(self, distance)
    /\ \A self \in LivePlayers :
            move_by([self EXCEPT !.position = 34], 5) =
                [self EXCEPT !.position = 3, !.balance = @ + 200,
                             !.in_jail = FALSE]

\* A roll has taken the roller past tile 0.
PassedGo ==
    /\ root_handle \in FreeRolls
    /\ \E k \in 1 .. Len(Root.children) :
            LET i == diff_current_pindex(nodes, root_handle)
                before == diff_players(nodes, root_handle)[i]
                after == diff_players(nodes, Root.children[k])[i]
            IN /\ after.position < before.position
               /\ after.position = (before.position + SIGNIFICANT_ROLLS[k].sum) % BOARD_SIZE
               /\ after.balance = before.balance + GO_BONUS
               /\ ~after.in_jail


(***************************************************************************)
(* Properties of the roll of a player in jail.                              *)
(***************************************************************************)
\* The expanded Roll nodes whose roller is in jail.
JailedRolls ==
    {h \in Expanded : /\ NodeAt(nodes, h).next_move.mt = "Roll"
                      /\ get_current_player(nodes, h).in_jail}

\* The children of h in which the roller of h has left jail, as handles.
LeavingKids(h) ==
    {c \in Range(NodeAt(nodes, h).children) :
        ~diff_players(nodes, c)[diff_current_pindex(nodes, h)].in_jail}

\* C18: every child of a jailed roller that leaves jail has the tile class
\* of the position after the move as its pending move.
LeavesJailOntoTile ==
    \A h \in JailedRolls : \A c \in LeavingKids(h) :
        NodeAt(nodes, c).next_move =
            when_landed_on(diff_players(nodes, c)[diff_current_pindex(nodes, h)].position)


(***************************************************************************)
(* Properties of the forced sale.                                           *)
(***************************************************************************)
\* The sum of the list prices of the positions in S.
ListPrices(S) == SumSeq(SeqMap(LAMBDA pos : PROPERTIES[pos].price, SortedSeq(S)))

\* Child c of the SellProperty node h sells exactly the properties in S.
Sells(h, c, S) ==
    LET debtor == diff_current_pindex(nodes, h)
        owned == diff_owned_properties(nodes, h)
    IN /\ diff_owned_properties(nodes, c) = [pos \in DOMAIN owned \ S |-> owned[pos]]
       /\ diff_players(nodes, c)[debtor].balance =
                diff_players(nodes, h)[debtor].balance + ListPrices(S)

\* C19: every Choice child of a SellProperty expansion sells a subset S of
\* the debtor's properties: its owned_properties is the parent's map without
\* exactly the positions in S, and the debtor's balance is the parent's plus
\* the list prices of S.
SaleRemovesSold ==
    \A h \in Expanded :
        NodeAt(nodes, h).next_move.mt = "SellProperty" =>
            \A c \in ChoiceKids(h) :
                \E S \in SUBSET get_current_props(nodes, h) : S # {} /\ Sells(h, c, S)


\* C20: whenever a child of an expansion, other than the forced sale itself,
\* leaves a player with a negative balance, whatever was debited (rent,
\* property tax, jail fee, location fee), its pending move is SellProperty.
NegativeThenSell ==
    \A h \in Expanded :
        NodeAt(nodes, h).next_move.mt # "SellProperty" =>
            \A c \in Range(NodeAt(nodes, h).children) :
                Negative(c) # {} => NodeAt(nodes, c).next_move.mt = "SellProperty"


(***************************************************************************)
(* Properties of the MCTS agent.                                            *)
(***************************************************************************)
\* The children of the search node that the step changed.
ChangedKids(node, node2) ==
    {k \in 1 .. Len(node.children) : node2.children[k] # node.children[k]}

\* From `node` to `node2`, wherever the traversal went through a node with a
\* child never visited, it went on into a child never visited, which has one
\* visit afterwards, and into no other child.
RECURSIVE UnvisitedFirst(_, _)
UnvisitedFirst(node, node2) ==
    (Len(node.children) > 0 /\ node2.num_visits = node.num_visits + 1) =>
        /\ (\E k \in 1 .. Len(node.children) : node.children[k].num_visits = 0) =>
                \E k \in 1 .. Len(node.children) :
                    /\ ChangedKids(node, node2) = {k}
                    /\ node.children[k].num_visits = 0
                    /\ node2.children[k].num_visits = 1
        /\ \A k \in ChangedKids(node, node2) :
                UnvisitedFirst(node.children[k], node2.children[k])

\* C12: in the selection of traverse, at any search node with children, as
\* long as some child has num_visits = 0 no child with num_visits > 0 is
\* descended into: the child selected has never been visited, and its
\* num_visits becomes 1.
SelectsUnvisited ==
    [][(pc = "search" /\ pc' = "search") =>
            UnvisitedFirst(agent.mcts_tree, agent'.mcts_tree)]_vars

\* The search is below the root: a child of the root has children of which
\* some have been visited and some have not.
SearchBelowRoot ==
    /\ pc = "search"
    /\ \E k \in 1 .. Len(agent.mcts_tree.children) :
            LET kid == agent.mcts_tree.children[k]
            IN /\ \E j \in 1 .. Len(kid.children) : kid.children[j].num_visits = 0
               /\ \E j \in 1 .. Len(kid.children) : kid.children[j].num_visits = 1

\* C13: whenever ai_choice has returned, the index returned is one of the N
\* children of the root of the game, the search tree has the same N children,
\* and each of them has been visited at least once.
ChoiceIsValid ==
    pc = "chosen" =>
        /\ choice \in 0 .. (Len(Root.children) - 1)
        /\ Len(agent.mcts_tree.children) = Len(Root.children)
        /\ \A k \in 1 .. Len(agent.mcts_tree.children) :
                agent.mcts_tree.children[k].num_visits >= 1

\* ai_choice has returned from a tree kept from its previous call, walked to
\* a node that had been visited, after no more iterations than the root has
\* children.
ReturnedFromRerooted ==
    /\ pc = "chosen"
    /\ Len(Root.children) >= 2
    /\ traversals = Len(Root.children)
    /\ agent.mcts_tree.num_visits > traversals



(***************************************************************************)
(* Selection at chance parents.                                            *)
(***************************************************************************)
\* The nodes of the search tree under `node`, itself included.
RECURSIVE SearchNodes(_)
SearchNodes(node) ==
    {node} \cup UNION {SearchNodes(node.children[k]) : k \in 1 .. Len(node.children)}

\* The search nodes whose children are chance branches.
ChanceParents ==
    {n \in SearchNodes(agent.mcts_tree) :
        Len(n.children) > 0 /\ n.children[1].branch_type.kind = "Chance"}

\* The indices of the children traverse can descend into at `node`.
MayDescend(node) == {select_child(node)}

\* C21: at a search node whose children are chance branches, traverse can
\* descend into any child of probability p > 0, whatever the visit counts.
ChanceChildSampled ==
    \A n \in ChanceParents :
        \A k \in 1 .. Len(n.children) :
            n.children[k].branch_type.p[1] > 0 => (k - 1) \in MayDescend(n)



(***************************************************************************)
(* Backpropagation.                                                        *)
(***************************************************************************)
\* `node2` is `node` after a traverse that counted one visit at every node of
\* the path it descended, the leaf it ended at included.
RECURSIVE VisitedOnce(_, _)
VisitedOnce(node, node2) ==
    /\ node2.num_visits = node.num_visits + 1
    /\ Len(node.children) > 0 =>
          VisitedOnce(node.children[select_child(node) + 1],
                      node2.children[select_child(node) + 1])

\* C22: every call of traverse increments num_visits by exactly one at
\* every search node of the path descended, the leaf it ends at included,
\* also when the leaf is expanded on this visit or is terminal.
PathCounted ==
    [][(pc = "search" /\ pc' = "search") =>
            VisitedOnce(agent.mcts_tree, agent'.mcts_tree)]_vars



(***************************************************************************)
(* The search tree against the game tree.                                  *)
(***************************************************************************)
\* The search node `node` mirrors the game node at `handle`: it has no
\* child, or as many as the game node, of the same branch types, each
\* mirroring the game child of its index.
RECURSIVE Mirrors(_, _)
Mirrors(node, handle) ==
    \/ Len(node.children) = 0
    \/ /\ Len(node.children) = Len(NodeAt(nodes, handle).children)
       /\ \A k \in 1 .. Len(node.children) :
            /\ node.children[k].branch_type =
                    NodeAt(nodes, NodeAt(nodes, handle).children[k]).branch_type
            /\ Mirrors(node.children[k], NodeAt(nodes, handle).children[k])

\* play is about to call ai_choice.
AiToChoose ==
    /\ pc = "play"
    /\ ~is_terminal(nodes, root_handle)
    /\ AgentKind(diff_current_pindex(nodes, root_handle)) = "Ai"
    /\ NextBranch(Expand(Game)) = "Choice"

ResolvedState(ns, h) ==
    [fields |-> [k \in 1 .. Len(DiffID_all) |-> diff_field(ns, h, DiffID_all[k]).val],
     next_move |-> NodeAt(ns, h).next_move,
     branch_type |-> NodeAt(ns, h).branch_type]

\* The root has moved to one of its children: the history has grown by the
\* index of that child, and every node under the new root says of the game
\* what it said before and has the children it had.
RootFrame ==
    root_handle' # root_handle =>
        /\ \E child_index \in 0 .. (Len(NodeAt(nodes, root_handle).children) - 1) :
            /\ NodeAt(nodes, root_handle).children[child_index + 1] = root_handle'
            /\ move_history' = Append(move_history, child_index)
        /\ \A h \in Subtree(nodes', root_handle') :
            /\ ResolvedState(nodes', h) = ResolvedState(nodes, h)
            /\ NodeAt(nodes', h).children = NodeAt(nodes, h).children

\* C24: advance_root_node changes no resolved game state: for the new root
\* and every node of its subtree the resolved value of each of the seven
\* fields, the pending move and the branch type are what they were, and
\* move_history grows by exactly the chosen child index.
AdvanceKeepsState == [][RootFrame]_vars

\* The root has been advanced to a child that had been expanded before, and
\* whose children resolve fields through it.
AdvancedWithSubtree ==
    /\ Len(move_history) = 1
    /\ Len(NodeAt(nodes, root_handle).children) \in 1 .. 2
    /\ Len(nodes) > 16
    /\ \E c \in Range(NodeAt(nodes, root_handle).children) :
        \E k \in 1 .. Len(DiffID_all) : ~diff_exists(NodeAt(nodes, c), DiffID_all[k])



(***************************************************************************)
(* The subsets offered by the forced sale.                                  *)
(***************************************************************************)
\* The subsets of k properties of the debtor of h whose list prices bring
\* the debtor's balance back to zero or above.
Restoring(h, k) ==
    {S \in SUBSET get_current_props(nodes, h) :
        /\ Cardinality(S) = k
        /\ get_current_player(nodes, h).balance + ListPrices(S) >= 0}

\* The sizes of the subsets that restore the balance.
RestoringSizes(h) ==
    {k \in 1 .. Cardinality(get_current_props(nodes, h)) : Restoring(h, k) # {}}

\* The Choice children of h that credit the debtor with `worth`.
Crediting(h, worth) ==
    {c \in ChoiceKids(h) :
        diff_players(nodes, c)[diff_current_pindex(nodes, h)].balance =
            get_current_player(nodes, h).balance + worth}

\* The expanded SellProperty nodes that offer sales.
SaleOffers ==
    {h \in Expanded :
        NodeAt(nodes, h).next_move.mt = "SellProperty" /\ ChoiceKids(h) # {}}

\* C25: where the SellProperty expansion emits Choice children, every child
\* is one, some subset restores the balance, and with k the smallest size of
\* such a subset there is exactly one child for every subset of k
\* properties that restores the balance (as many children credit a sum as
\* there are such subsets of that sum), and no other child.
SmallestSales ==
    \A h \in SaleOffers :
        /\ AllOfKind(Kids(h), "Choice")
        /\ RestoringSizes(h) # {}
        /\ LET k == Min(RestoringSizes(h))
           IN /\ Len(Kids(h)) = Cardinality(Restoring(h, k))
              /\ \A S \in Restoring(h, k) :
                    Cardinality(Crediting(h, ListPrices(S))) =
                        Cardinality({T \in Restoring(h, k) : ListPrices(T) = ListPrices(S)})



\* A forced sale is offered where no single property covers the debt, to a
\* debtor with at least three properties: the children sell pairs.
SellsPairs ==
    \E h \in SaleOffers :
        /\ Cardinality(get_current_props(nodes, h)) >= 3
        /\ Min(RestoringSizes(h)) = 2
        /\ Len(Kids(h)) >= 2



(***************************************************************************)
(* Landing on a property.                                                   *)
(***************************************************************************)
\* The expanded nodes where the current player is on an unowned property.
OnUnowned ==
    {h \in Expanded :
        /\ NodeAt(nodes, h).next_move.mt = "Property"
        /\ get_current_player(nodes, h).position
                \notin DOMAIN diff_owned_properties(nodes, h)}

\* Child c of h is the purchase: the current player pays the price and owns
\* the tile at rent level 1.
IsBuy(h, c) ==
    LET me == diff_current_pindex(nodes, h)
        pos == get_current_player(nodes, h).position
    IN /\ NodeAt(nodes, c).branch_type = Choice
       /\ diff_players(nodes, c) =
            [diff_players(nodes, h) EXCEPT ![me].balance = @ - PROPERTIES[pos].price]
       /\ diff_owned_properties(nodes, c) =
            (pos :> Ownership(me, 1)) @@ diff_owned_properties(nodes, h)

\* Child c of h is the auction: nothing changes but the pending move.
IsAuction(h, c) ==
    /\ NodeAt(nodes, c).branch_type = Choice
    /\ NodeAt(nodes, c).next_move = Move("Auction")
    /\ diff_players(nodes, c) = diff_players(nodes, h)
    /\ diff_owned_properties(nodes, c) = diff_owned_properties(nodes, h)

\* C26: on an unowned tile there is a buy child exactly when the current
\* player's balance is at least the price, and always one auction child.
BuyIffAffordable ==
    \A h \in OnUnowned :
        LET me == get_current_player(nodes, h)
            kids == Range(NodeAt(nodes, h).children)
        IN /\ (\E c \in kids : IsBuy(h, c)) <=> me.balance >= PROPERTIES[me.position].price
           /\ Cardinality({c \in kids : IsAuction(h, c)}) = 1
           /\ \A c \in kids : IsBuy(h, c) \/ IsAuction(h, c)



\* The expanded nodes where the current player is on an owned property.
OnOwned ==
    {h \in Expanded :
        /\ NodeAt(nodes, h).next_move.mt = "Property"
        /\ get_current_player(nodes, h).position \in DOMAIN diff_owned_properties(nodes, h)}

\* The rent of the tile the current player of h is on: that of level 1 while
\* rounds of level-1 rent remain, else that of the tile's level.
RentDue(h) ==
    LET pos == get_current_player(nodes, h).position
    IN PROPERTIES[pos].rents[IF diff_lvl_1_rent(nodes, h) > 0 THEN 1
                             ELSE diff_owned_properties(nodes, h)[pos].rent_level]

\* The players of h after the current player has paid the owner of the tile.
RentPaid(h) ==
    LET me == diff_current_pindex(nodes, h)
        owner == diff_owned_properties(nodes, h)[get_current_player(nodes, h).position].owner
    IN IF owner = me THEN diff_players(nodes, h)
       ELSE [i \in DOMAIN diff_players(nodes, h) |->
                [diff_players(nodes, h)[i] EXCEPT !.balance =
                    IF i = me THEN @ - RentDue(h)
                    ELSE IF i = owner THEN @ + RentDue(h) ELSE @]]

\* The money of all players at h.
TotalMoney(h) ==
    SumSeq([k \in 1 .. Cardinality(DOMAIN diff_players(nodes, h)) |->
                diff_players(nodes, h)[k - 1].balance])

\* Child c of h is the rent child, and where the payer stays solvent the
\* seat to roll next is `seat`.
RentKid(h, c, seat) ==
    LET me == diff_current_pindex(nodes, h)
        pos == get_current_player(nodes, h).position
        owned == diff_owned_properties(nodes, h)
    IN /\ NodeAt(nodes, c).branch_type = Chance(ONE)
       /\ diff_players(nodes, c) = RentPaid(h)
       /\ TotalMoney(c) = TotalMoney(h)
       /\ diff_owned_properties(nodes, c) =
            [owned EXCEPT ![pos].rent_level = IF @ < 5 THEN @ + 1 ELSE 5]
       /\ IF RentPaid(h)[me].balance < 0
          THEN /\ NodeAt(nodes, c).next_move = Move("SellProperty")
               /\ diff_current_pindex(nodes, c) = me
          ELSE /\ NodeAt(nodes, c).next_move = Move("Roll")
               /\ diff_current_pindex(nodes, c) = seat

\* C27: on an owned tile there is exactly one child, Chance(1): the current
\* player has paid the rent to another owner, the tile's level has risen by
\* one up to 5, and the pending move is SellProperty for the same player if
\* the payer is in debt, else Roll for the next seat, or for the same player
\* again after a double.
RentChild ==
    \A h \in OnOwned :
        /\ Len(NodeAt(nodes, h).children) = 1
        /\ RentKid(h, NodeAt(nodes, h).children[1],
                   IF get_current_player(nodes, h).doubles_rolled = 0
                   THEN NextSeat(h) ELSE diff_current_pindex(nodes, h))

\* C27 as stated: the pending move is Roll with the turn advanced whenever
\* the payer is not in debt.
RentChildTurnAdvanced ==
    \A h \in OnOwned :
        /\ Len(NodeAt(nodes, h).children) = 1
        /\ RentKid(h, NodeAt(nodes, h).children[1], NextSeat(h))

\* Rent has been paid to another player at the tile's own level, above 1,
\* by a player who has rolled a double.
RentPaidAfterDouble ==
    \E h \in OnOwned :
        LET pos == get_current_player(nodes, h).position
            prop == diff_owned_properties(nodes, h)[pos]
        IN /\ prop.owner # diff_current_pindex(nodes, h)
           /\ get_current_player(nodes, h).doubles_rolled > 0
           /\ diff_lvl_1_rent(nodes, h) = 0
           /\ prop.rent_level > 1



(***************************************************************************)
(* Auctions.                                                               *)
(***************************************************************************)
\* The expanded nodes where an auction is pending.
OnAuction == {h \in Expanded : NodeAt(nodes, h).next_move.mt = "Auction"}

\* The players who can stake the minimum bid.
Bidders(h) ==
    {i \in DOMAIN diff_players(nodes, h) : diff_players(nodes, h)[i].balance >= MIN_BID}

\* In child c of the auction h, `winner` has paid a bid and owns the tile
\* under the current player at rent level 1; nothing else has changed.
WonBy(h, c, winner) ==
    LET players == diff_players(nodes, h)
        pos == get_current_player(nodes, h).position
    IN /\ diff_players(nodes, c)[winner].balance < players[winner].balance
       /\ diff_players(nodes, c) =
            [players EXCEPT ![winner].balance = diff_players(nodes, c)[winner].balance]
       /\ diff_owned_properties(nodes, c) =
            (pos :> Ownership(winner, 1)) @@ diff_owned_properties(nodes, h)

\* The children of the auction h are as claimed, the seat to roll next
\* being `seat`.
AuctionKids(h, seat) ==
    LET kids == Range(NodeAt(nodes, h).children)
    IN /\ \A c \in kids :
            /\ NodeAt(nodes, c).branch_type.kind = "Chance"
            /\ NodeAt(nodes, c).next_move = Move("Roll")
            /\ diff_current_pindex(nodes, c) = seat
       /\ IF Bidders(h) = {}
          THEN /\ Len(NodeAt(nodes, h).children) = 1
               /\ \A c \in kids :
                    /\ NodeAt(nodes, c).branch_type = Chance(ONE)
                    /\ diff_players(nodes, c) = diff_players(nodes, h)
                    /\ diff_owned_properties(nodes, c) = diff_owned_properties(nodes, h)
          ELSE /\ \A c \in kids : \E winner \in Bidders(h) : WonBy(h, c, winner)
               /\ \A winner \in Bidders(h) : \E c \in kids : WonBy(h, c, winner)

\* C28: the winners of an auction are exactly the players with a balance
\* of at least 20; the winner pays the bid and owns the tile under the
\* current player at level 1; without any such player there is one
\* Chance(1) child that changes nothing; every child is pending Roll, for
\* the next seat, or for the same player again after a double.
AuctionChildren ==
    \A h \in OnAuction :
        AuctionKids(h, IF get_current_player(nodes, h).doubles_rolled = 0
                       THEN NextSeat(h) ELSE diff_current_pindex(nodes, h))

\* C28 as stated: in all children the turn is advanced.
AuctionTurnAdvanced == \A h \in OnAuction : AuctionKids(h, NextSeat(h))

\* A property is auctioned by a player who has rolled a double, among
\* several bidders.
AuctionAfterDouble ==
    \E h \in OnAuction :
        /\ get_current_player(nodes, h).doubles_rolled > 0
        /\ Cardinality(Bidders(h)) >= 2



(***************************************************************************)
(* C29: the children of a chance card draw from a deck not yet seen whole.  *)
(***************************************************************************)
\* The expanded nodes at which a card is drawn from a deck with unseen cards.
OnDraw ==
    {h \in Expanded : /\ NodeAt(nodes, h).next_move.mt = "ChanceCard"
                      /\ Len(diff_seen_ccs(nodes, h)) < TOTAL_CHANCE_CARDS}

\* The copies of `card` not yet seen at h.
UnseenCopies(h, card) == DECK_COUNTS[card] - Occurrences(diff_seen_ccs(nodes, h), card)

\* The card drawn in child c of h: the one a choiceful child is pending on,
\* or the one a choiceless child has added to the seen cards.
DrawnIn(h, c) ==
    IF NodeAt(nodes, c).next_move.mt = "ChoicefulCC"
    THEN {NodeAt(nodes, c).next_move.cc}
    ELSE {card \in Range(CARDS) :
            diff_seen_ccs(nodes, c) = Append(diff_seen_ccs(nodes, h), card)}

\* The resolved value of every field but the jail rounds, which every child
\* of any expansion counts down.
FieldsButJail(h) ==
    [id \in Range(DiffID_all) \ {DiffID_JailRounds} |-> diff_field(nodes, h, id).val]

\* Child c of h, emitted as `emitted`, carries the effect of the choiceless
\* `card`: the turn is over and the card is seen.
Effected(h, c, emitted, card) ==
    LET i == diff_current_pindex(nodes, h)
        players == diff_players(nodes, h)
        owned == Cardinality({pos \in DOMAIN diff_owned_properties(nodes, h) :
                                diff_owned_properties(nodes, h)[pos].owner = i})
    IN /\ NodeAt(nodes, c).next_move = Move("Roll")
       /\ diff_current_pindex(nodes, c) =
            IF players[i].doubles_rolled = 0 THEN NextSeat(h) ELSE i
       /\ diff_seen_ccs(nodes, c) = Append(diff_seen_ccs(nodes, h), card)
       /\ diff_owned_properties(nodes, c) = diff_owned_properties(nodes, h)
       /\ CASE card = "PropertyTax" ->
                 diff_players(nodes, c) = [players EXCEPT ![i].balance = @ - 50 * owned]
            [] card = "Level1Rent" ->
                 /\ diff_players(nodes, c) = players
                 /\ diff_exists(emitted, DiffID_Level1Rent)
                 /\ emitted.diffs[get_diff_index(emitted, DiffID_Level1Rent)[1] + 1].val
                        = 2 * Cardinality(DOMAIN players)
            [] card = "AllToParking" ->
                 diff_players(nodes, c) =
                    [p \in DOMAIN players |->
                        IF players[p].in_jail THEN players[p]
                        ELSE [players[p] EXCEPT !.position = FREE_PARKING_POSITION]]

\* The children of the draw h are as claimed.
DrawKids(h) ==
    LET children == NodeAt(nodes, h).children
        emitted == gen_cc_children(nodes, h)
        unseen == {card \in Range(CARDS) : UnseenCopies(h, card) > 0}
    IN /\ Len(children) = Cardinality(unseen)
       /\ Len(emitted) = Len(children)
       /\ \A card \in unseen :
            \E k \in 1 .. Len(children) :
                /\ DrawnIn(h, children[k]) = {card}
                /\ NodeAt(nodes, children[k]).branch_type.kind = "Chance"
                /\ REq(NodeAt(nodes, children[k]).branch_type.p,
                       <<UnseenCopies(h, card), TOTAL_CHANCE_CARDS - Len(diff_seen_ccs(nodes, h))>>)
                /\ emitted[k].next_move = NodeAt(nodes, children[k]).next_move
                /\ IF is_choiceless(card)
                   THEN Effected(h, children[k], emitted[k], card)
                   ELSE /\ NodeAt(nodes, children[k]).next_move = ChoicefulCC(card)
                        /\ emitted[k].diffs = <<>>
                        /\ FieldsButJail(children[k]) = FieldsButJail(h)

ChoicefulCards == Range(CARDS) \ {"PropertyTax", "Level1Rent", "AllToParking"}

\* The expanded nodes that carry out a choiceful card.
OnChoiceful == {h \in Expanded : CardOf(h) \in ChoicefulCards}

\* `card` offers the current player of h nothing to choose: there is no
\* property for it to act on, or none that it would change.
Unplayable(h, card) ==
    LET owned == diff_owned_properties(nodes, h)
        mine == {pos \in DOMAIN owned : owned[pos].owner = diff_current_pindex(nodes, h)}
    IN CASE card = "RentTo5" -> \A pos \in mine : owned[pos].rent_level = 5
         [] card = "RentTo1" -> \A pos \in DOMAIN owned : owned[pos].rent_level = 1
         [] card = "SwapProperty" -> mine = {} \/ mine = DOMAIN owned
         [] card \in {"SetRentInc", "SetRentDec", "SideRentInc", "SideRentDec", "RentSpike"} ->
                mine = {}
         [] OTHER -> FALSE

\* Child c of h changes no player and no ownership, has recorded `card` as
\* drawn and is pending Roll, by the next seat unless the player rolled a
\* double.
NoChange(h, c, card) ==
    LET i == diff_current_pindex(nodes, h)
        seen_ccs == diff_seen_ccs(nodes, h)
    IN /\ NodeAt(nodes, c).branch_type = Chance(ONE)
       /\ diff_players(nodes, c) = diff_players(nodes, h)
       /\ diff_owned_properties(nodes, c) = diff_owned_properties(nodes, h)
       /\ NodeAt(nodes, c).next_move = Move("Roll")
       /\ diff_current_pindex(nodes, c) =
            IF diff_players(nodes, h)[i].doubles_rolled = 0 THEN NextSeat(h) ELSE i
       /\ IF Len(seen_ccs) = TOTAL_CHANCE_CARDS
          THEN /\ diff_seen_ccs(nodes, c) = seen_ccs
               /\ diff_top_cc(nodes, c) = (diff_top_cc(nodes, h) + 1) % TOTAL_CHANCE_CARDS
          ELSE /\ diff_seen_ccs(nodes, c) = Append(seen_ccs, card)
               /\ diff_top_cc(nodes, c) = diff_top_cc(nodes, h)

\* C30: the children of a choiceful chance card are never none; where the
\* card leaves no choice (no property for it to act on, or every change
\* clamped away, so that no Choice child is made) there is exactly one
\* child, Chance(1), that changes no player and no ownership, records the
\* card as drawn and is pending Roll with the turn per the doubles rule.
NoChoiceOneChild ==
    /\ \A h \in Live :
            CardOf(h) \in ChoicefulCards => Len(gen_children(nodes, h)) >= 1
    /\ \A h \in OnChoiceful :
            LET children == NodeAt(nodes, h).children
                card == CardOf(h)
            IN (Unplayable(h, card)
                  \/ \E k \in 1 .. Len(children) :
                        NodeAt(nodes, children[k]).branch_type.kind # "Choice")
                 => /\ Len(children) = 1
                    /\ NoChange(h, children[1], card)

\* A card that lowers rents has been expanded where the player's properties
\* are all at the lowest level: every change is clamped away.
ClampedAway ==
    \E h \in OnChoiceful :
        /\ CardOf(h) \in {"RentTo1", "SetRentDec", "SideRentDec"}
        /\ get_current_props(nodes, h) # {}
        /\ Len(NodeAt(nodes, h).children) = 1
        /\ NodeAt(nodes, NodeAt(nodes, h).children[1]).branch_type.kind = "Chance"



(***************************************************************************)
(* C31: the rolls of a player in jail.                                      *)
(***************************************************************************)
\* Child c of h is the roller leaving jail by `roll`, having paid `fee`:
\* moved by the dice sum, out of jail, the doubles counter as it was, and no
\* other player changed.
LeftJail(h, c, roll, fee) ==
    LET i == diff_current_pindex(nodes, h)
        players == diff_players(nodes, h)
        new_pos == (players[i].position + roll.sum) % BOARD_SIZE
        bonus == IF new_pos < players[i].position THEN GO_BONUS ELSE 0
    IN /\ NodeAt(nodes, c).branch_type = Chance(roll.probability)
       /\ diff_players(nodes, c) =
            [players EXCEPT ![i] = [in_jail |-> FALSE,
                                    position |-> new_pos,
                                    balance |-> players[i].balance - fee + bonus,
                                    doubles_rolled |-> players[i].doubles_rolled]]

\* Child c of h is the roller staying in jail: no player changed, the next
\* seat to roll.
StayedInJail(h, c) ==
    /\ NodeAt(nodes, c).branch_type.kind = "Chance"
    /\ REq(NodeAt(nodes, c).branch_type.p, <<30, 36>>)
    /\ diff_players(nodes, c) = diff_players(nodes, h)
    /\ get_current_player(nodes, h).position = JAIL_POSITION
    /\ NodeAt(nodes, c).next_move = Move("Roll")
    /\ diff_current_pindex(nodes, c) = NextSeat(h)

\* The children of the jailed roll h are as claimed, a roll without jail
\* rounds left having `outcomes` children.
JailKids(h, outcomes) ==
    LET children == NodeAt(nodes, h).children
        jail_rounds == diff_jail_rounds(nodes, h)[diff_current_pindex(nodes, h)]
        doubles == SelectSeq(SIGNIFICANT_ROLLS, LAMBDA roll : roll.is_double)
    IN IF jail_rounds > 0
       THEN /\ Len(doubles) = 6
            /\ Len(children) = 7
            /\ \A k \in 1 .. 6 : LeftJail(h, children[k], doubles[k], 0)
            /\ StayedInJail(h, children[7])
       ELSE /\ Len(children) = outcomes
            /\ Len(children) = Len(SIGNIFICANT_ROLLS)
            /\ \A k \in 1 .. Len(children) :
                    LeftJail(h, children[k], SIGNIFICANT_ROLLS[k],
                             IF SIGNIFICANT_ROLLS[k].is_double THEN 0 ELSE JAIL_FEE)

\* C31: a jailed roller with jail rounds left has the 6 doubles and one
\* stay-in-jail child of the no-double probability, with no player changed
\* and the turn passed; without jail rounds left there is one child per
\* significant roll, 15 of them, and exactly the non-doubles pay the fee of
\* 100; in every moving child the roller is out of jail with the doubles
\* counter unchanged.
JailedRollChildren == \A h \in JailedRolls : JailKids(h, 15)

\* C31 as stated: without jail rounds left the children are 11 outcomes.
JailedElevenOutcomes == \A h \in JailedRolls : JailKids(h, 11)

\* A jailed roller without jail rounds left has been expanded: the
\* non-double of sum 7 costs the fee and the double of sum 12 does not.
JailedRollNoRounds ==
    \E h \in JailedRolls :
        /\ diff_jail_rounds(nodes, h)[diff_current_pindex(nodes, h)] = 0
        /\ \E c \in Range(NodeAt(nodes, h).children) :
              /\ diff_players(nodes, c)[diff_current_pindex(nodes, h)].position = JAIL_POSITION + 7
              /\ diff_players(nodes, c)[diff_current_pindex(nodes, h)].balance
                    = get_current_player(nodes, h).balance - JAIL_FEE



(***************************************************************************)
(* C32: the jail term.                                                      *)
(***************************************************************************)
\* In a move of the game, the jail rounds of a player who is in jail change
\* only if the move is that player's own roll.
OwnTriesCount ==
    move_history' # move_history =>
        \A p \in DOMAIN diff_players(nodes, root_handle) :
            (/\ diff_players(nodes, root_handle)[p].in_jail
             /\ diff_jail_rounds(nodes', root_handle')[p] # diff_jail_rounds(nodes, root_handle)[p])
            => /\ NodeAt(nodes, root_handle).next_move.mt = "Roll"
               /\ diff_current_pindex(nodes, root_handle) = p

\* C32: a player sent to jail by the go-to-jail tile has JAIL_TRIES rolls
\* in which only a double releases them: the jail rounds of a player in
\* jail are counted down by that player's own rolls, not by other moves.
JailCounterOwnTries == [][OwnTriesCount]_vars



(***************************************************************************)
(* C33: the rounds of level-1 rent.                                         *)
(***************************************************************************)
\* Child c of h is the draw of the Level1Rent card.
DrawsLevel1Rent(h, c) ==
    \/ /\ NodeAt(nodes, h).next_move.mt = "ChanceCard"
       /\ Len(diff_seen_ccs(nodes, h)) < TOTAL_CHANCE_CARDS
       /\ diff_seen_ccs(nodes, c) = Append(diff_seen_ccs(nodes, h), "Level1Rent")
    \/ CardOf(h) = "Level1Rent"

\* The rounds of level-1 rent in child c of h: set by the card, else one
\* less where the turn has passed, never below 0, else as they were.
RoundsStep(h, c) ==
    LET before == diff_lvl_1_rent(nodes, h)
        after == diff_lvl_1_rent(nodes, c)
    IN /\ after >= 0
       /\ after = IF DrawsLevel1Rent(h, c)
                  THEN 2 * Cardinality(DOMAIN diff_players(nodes, h))
                  ELSE IF diff_current_pindex(nodes, c) # diff_current_pindex(nodes, h)
                          /\ before > 0
                  THEN before - 1
                  ELSE before

\* The rent the current player of h pays in child c for an opponent's tile
\* is that of level 1 exactly while rounds of level-1 rent remain.
Level1Charged(h, c) ==
    LET me == diff_current_pindex(nodes, h)
        pos == get_current_player(nodes, h).position
        prop == diff_owned_properties(nodes, h)[pos]
        paid == diff_players(nodes, h)[me].balance - diff_players(nodes, c)[me].balance
    IN prop.owner # me =>
          paid = PROPERTIES[pos].rents[IF diff_lvl_1_rent(nodes, h) > 0 THEN 1
                                       ELSE prop.rent_level]

Resolving == {h \in Expanded : NodeAt(nodes, h).next_move.mt # "Roll"}

\* Child c of the free roll h: the roller keeps the turn if the roll leaves
\* the doubles counter above 0, and otherwise until the pending move is Roll.
TurnAfterRoll(h, c) ==
    LET i == diff_current_pindex(nodes, h)
    IN diff_current_pindex(nodes, c) =
          IF diff_players(nodes, c)[i].doubles_rolled # 0 THEN i
          ELSE IF NodeAt(nodes, c).next_move.mt = "Roll" THEN NextSeat(h)
          ELSE i

\* Child c of the node h at which the landing of player i is resolved: the
\* doubles counter of i is as the roll left it; with the counter above 0 the
\* turn stays with i, who also makes the next roll; with the counter at 0
\* the turn passes exactly when the pending move is Roll again.
TurnWhileResolving(h, c) ==
    LET i == diff_current_pindex(nodes, h)
        doubles_rolled == diff_players(nodes, h)[i].doubles_rolled
    IN /\ diff_players(nodes, c)[i].doubles_rolled = doubles_rolled
       /\ ~diff_players(nodes, h)[i].in_jail
       /\ diff_current_pindex(nodes, c) =
            IF doubles_rolled # 0 THEN i
            ELSE IF NodeAt(nodes, c).next_move.mt = "Roll" THEN NextSeat(h)
            ELSE i

\* C34: the current player changes only from i to (i + 1) mod the number of
\* players; a player out of jail whose roll leaves doubles_rolled above 0
\* keeps the turn through the resolution of the landing and makes the next
\* roll; after a roll that leaves doubles_rolled at 0 the turn passes
\* exactly once, when the pending move is Roll again.
TurnOrder ==
    /\ \A h \in Expanded : \A c \in Range(NodeAt(nodes, h).children) :
            diff_current_pindex(nodes, c) \in {diff_current_pindex(nodes, h), NextSeat(h)}
    /\ \A h \in FreeRolls : \A c \in Range(NodeAt(nodes, h).children) : TurnAfterRoll(h, c)
    /\ \A h \in Resolving : \A c \in Range(NodeAt(nodes, h).children) : TurnWhileResolving(h, c)

\* After a double the choice of a chance card is resolved and the same
\* player is to roll again.
KeepsTurnThroughCard ==
    \E h \in Resolving :
        /\ NodeAt(nodes, h).next_move.mt = "ChoicefulCC"
        /\ get_current_player(nodes, h).doubles_rolled # 0
        /\ \E c \in Range(NodeAt(nodes, h).children) :
              /\ NodeAt(nodes, c).next_move.mt = "Roll"
              /\ diff_current_pindex(nodes, c) = diff_current_pindex(nodes, h)



(***************************************************************************)
(* C35: a property is pending only on a property tile.                      *)
(***************************************************************************)
\* C35: in every live node pending Property or Auction the current player
\* is on one of the 22 property tiles, which has a price and rents, and in
\* every live node pending Auction that tile has no owner.
PendingOnProperty ==
    \A h \in Live :
        LET mt == NodeAt(nodes, h).next_move.mt
            pos == get_current_player(nodes, h).position
        IN /\ mt \in {"Property", "Auction"} =>
                /\ pos \in PROP_POSITIONS
                /\ pos \in DOMAIN PROPERTIES
                /\ Cardinality(PROP_POSITIONS) = 22
           /\ mt = "Auction" => pos \notin DOMAIN diff_owned_properties(nodes, h)

\* An auction is pending while other tiles have owners.
AuctionPendingAmongOwned ==
    \E h \in Live :
        /\ NodeAt(nodes, h).next_move.mt = "Auction"
        /\ DOMAIN diff_owned_properties(nodes, h) # {}



(***************************************************************************)
(* C36: players in jail.                                                    *)
(***************************************************************************)
\* C36: in every live node a player in jail is on the jail tile with
\* doubles_rolled 0, and no child of an expanded node has moved a player
\* who is in jail in the parent and still in jail in the child.
JailedOnJailTile ==
    /\ \A h \in Live : \A p \in DOMAIN diff_players(nodes, h) :
            diff_players(nodes, h)[p].in_jail =>
                /\ diff_players(nodes, h)[p].position = JAIL_POSITION
                /\ diff_players(nodes, h)[p].doubles_rolled = 0
    /\ \A h \in Expanded : \A c \in Range(NodeAt(nodes, h).children) :
            \A p \in DOMAIN diff_players(nodes, h) :
                (diff_players(nodes, h)[p].in_jail /\ diff_players(nodes, c)[p].in_jail)
                    => diff_players(nodes, c)[p].position = diff_players(nodes, h)[p].position

\* The AllToParking card is drawn while a player is in jail: the child has
\* the jailed player in jail and another player moved to free parking.
ParkingPassesJail ==
    \E h \in Expanded : \E c \in Range(NodeAt(nodes, h).children) :
        /\ NodeAt(nodes, h).next_move.mt = "ChanceCard"
        /\ \E p \in DOMAIN diff_players(nodes, h) :
              diff_players(nodes, h)[p].in_jail /\ diff_players(nodes, c)[p].in_jail
        /\ \E q \in DOMAIN diff_players(nodes, h) :
              /\ diff_players(nodes, h)[q].position # FREE_PARKING_POSITION
              /\ diff_players(nodes, c)[q].position = FREE_PARKING_POSITION



(***************************************************************************)
(* C37: the child chosen among visited children.                           *)
(***************************************************************************)
\* The search nodes whose children have all been visited.
AllVisited ==
    {n \in SearchNodes(agent.mcts_tree) :
        /\ Len(n.children) > 0
        /\ \A k \in 1 .. Len(n.children) : n.children[k].num_visits > 0}

\* The 0-based index of the last of the children of n with the fewest visits.
LastLeastVisited(n) ==
    (CHOOSE i \in 1 .. Len(n.children) :
        /\ \A j \in 1 .. Len(n.children) : n.children[i].num_visits <= n.children[j].num_visits
        /\ \A j \in (i + 1) .. Len(n.children) :
                n.children[i].num_visits < n.children[j].num_visits) - 1

\* n with the accumulated values of its children replaced by `value`.
WithValues(n, value) ==
    [n EXCEPT !.children = [k \in 1 .. Len(n.children) |->
                                [n.children[k] EXCEPT !.total_value = value]]]

MaxBalance == 3000

\* For every balance that is a multiple of 10 and at least the smallest
\* bid, each of the five bids is a multiple of 20 between 20 and the balance.
BidsWithinBalance ==
    \A balance \in {b \in MIN_BID .. MaxBalance : b % 10 = 0} :
        \A k \in 1 .. 5 :
            /\ balance_at_pos(balance, k) % 20 = 0
            /\ MIN_BID <= balance_at_pos(balance, k)
            /\ balance_at_pos(balance, k) <= balance

\* In child c of the auction h every player has the balance of h but one,
\* who has paid a multiple of 20 between 20 and their balance.
BidPaid(h, c) ==
    LET players == diff_players(nodes, h)
        paid(p) == players[p].balance - diff_players(nodes, c)[p].balance
    IN /\ Cardinality({p \in DOMAIN players : paid(p) # 0}) <= 1
       /\ \A p \in DOMAIN players :
            /\ diff_players(nodes, c)[p].balance >= 0
            /\ paid(p) # 0 =>
                /\ paid(p) % 20 = 0
                /\ MIN_BID <= paid(p)
                /\ paid(p) <= players[p].balance

\* C38: every balance in every live node is a multiple of 10; in every
\* child of an auction the winning bid is a multiple of 20, at least 20 and
\* at most the winner's balance, and no balance is negative.
BalancesAndBids ==
    /\ \A h \in Live : \A p \in DOMAIN diff_players(nodes, h) :
            diff_players(nodes, h)[p].balance % 10 = 0
    /\ \A h \in OnAuction : \A c \in Range(NodeAt(nodes, h).children) : BidPaid(h, c)
    /\ BidsWithinBalance

\* An auction has a child in which the winner bids their whole balance.
WholeBalanceBid ==
    \E h \in OnAuction : \E c \in Range(NodeAt(nodes, h).children) :
        \E p \in DOMAIN diff_players(nodes, h) :
            /\ diff_players(nodes, h)[p].balance > 0
            /\ diff_players(nodes, c)[p].balance = 0


(***************************************************************************)
(* StateDiff on its own: a child is created by new_with_parent and its      *)
(* fields are set one at a time, as the setters do while gen_children       *)
(* builds it.                                                               *)
(***************************************************************************)
\* The nodes of the arena in this specification: the root and one child.
MaxDiffNodes == 2

\* Two values for each field.
FieldValues(diff_id) ==
    CASE diff_id = DiffID_Level1Rent -> {0, 1}
      [] diff_id = DiffID_SeenCcsHead -> {0, 1}
      [] diff_id = DiffID_SeenCcs -> {<<>>, <<"Bonus">>}
      [] diff_id = DiffID_OwnedProperties -> {EmptyMap, 1 :> Ownership(0, 0)}
      [] diff_id = DiffID_CurrentPlayer -> {0, 1}
      [] diff_id = DiffID_Players ->
            {[i \in 0 .. (PlayerCount - 1) |-> NewPlayer],
             [i \in 0 .. (PlayerCount - 1) |-> [NewPlayer EXCEPT !.position = 1]]}
      [] diff_id = DiffID_JailRounds ->
            {[i \in 0 .. (PlayerCount - 1) |-> 0], [i \in 0 .. (PlayerCount - 1) |-> 1]}

\* StateDiff::new_with_parent(parent), pushed to the arena.
NewChild(parent) ==
    /\ Len(nodes) < MaxDiffNodes
    /\ nodes' = Append(nodes, new_with_parent(parent))
    /\ UNCHANGED <<dirty_handles, root_handle, move_history, root_turn, played>>
    /\ UNCHANGED agent_vars
    /\ UNCHANGED comb_vars

\* A setter called on the child last created.
SetField(diff_id, value) ==
    /\ Len(nodes) > 1
    /\ nodes' = [nodes EXCEPT ![Len(nodes)] = set_diff(@, diff_id, FieldDiff(diff_id, value))]
    /\ UNCHANGED <<dirty_handles, root_handle, move_history, root_turn, played>>
    /\ UNCHANGED agent_vars
    /\ UNCHANGED comb_vars

DiffNext ==
    \/ \E parent \in 0 .. (Len(nodes) - 1) : NewChild(parent)
    \/ \E diff_id \in Range(DiffID_all) : \E value \in FieldValues(diff_id) :
            SetField(diff_id, value)

DiffSpec == Init /\ [][DiffNext]_vars

\* The set bits of a u8.
PopCount(x) == Cardinality({k \in 0 .. 7 : Bit(x, k) = 1})

\* The entry get_diff_index points at.
EntryOf(s, f) == s.diffs[get_diff_index(s, f)[1] + 1]

\* The same variant with the same value.
SameEntry(a, b) == a.id = b.id /\ a.val = b.val

\* The same StateDiff: the same bits and the same entries.
SameDiff(s, t) ==
    /\ s.present_diffs = t.present_diffs
    /\ Len(s.diffs) = Len(t.diffs)
    /\ \A i \in 1 .. Len(s.diffs) : SameEntry(s.diffs[i], t.diffs[i])
    /\ [s EXCEPT !.diffs = <<>>] = [t EXCEPT !.diffs = <<>>]

\* diffs has one entry for each set bit of present_diffs, in the order
\* JailRounds, Players, CurrentPlayer, OwnedProperties, SeenCcs, SeenCcsHead,
\* Level1Rent, and get_diff_index finds the entry of each field there is.
WellFormed(s) ==
    /\ Len(s.diffs) = PopCount(s.present_diffs)
    /\ \A i, j \in 1 .. Len(s.diffs) : i < j => s.diffs[i].id > s.diffs[j].id
    /\ \A f \in Range(DiffID_all) :
        /\ diff_exists(s, f) <=> \E i \in 1 .. Len(s.diffs) : s.diffs[i].id = f
        /\ diff_exists(s, f) <=> get_diff_index(s, f) # <<>>
        /\ diff_exists(s, f) =>
            /\ get_diff_index(s, f)[1] + 1 \in 1 .. Len(s.diffs)
            /\ EntryOf(s, f).id = f

\* Setting f to value: f exists and holds value, every other field exists as
\* before and holds what it held.
FieldSet(s, t, f, value) ==
    /\ diff_exists(t, f)
    /\ SameEntry(EntryOf(t, f), FieldDiff(f, value))
    /\ \A g \in Range(DiffID_all) \ {f} :
        /\ diff_exists(t, g) <=> diff_exists(s, g)
        /\ diff_exists(s, g) => SameEntry(EntryOf(t, g), EntryOf(s, g))

\* What a step does to the node of handle h.
NodeStep(h) ==
    LET t == NodeAt(nodes', h)
    IN /\ WellFormed(t)
       /\ IF h >= Len(nodes)
          THEN \A f \in Range(DiffID_all) : ~diff_exists(t, f)
          ELSE \/ SameDiff(t, NodeAt(nodes, h))
               \/ \E f \in Range(DiffID_all) : \E value \in FieldValues(f) :
                    /\ SameDiff(t, set_diff(NodeAt(nodes, h), f, FieldDiff(f, value)))
                    /\ FieldSet(NodeAt(nodes, h), t, f, value)

SetDiffStep == \A h \in 0 .. (Len(nodes') - 1) : NodeStep(h)

\* C39: a new StateDiff has no field; each set_diff makes its field exist
\* with the value set, at the index get_diff_index gives, and leaves the
\* existence and the entry of every other field as they were; and at every
\* moment diffs has as many entries as present_diffs has set bits, ordered
\* JailRounds, Players, CurrentPlayer, OwnedProperties, SeenCcs, SeenCcsHead,
\* Level1Rent.
SetDiffKeepsFields == [][SetDiffStep]_vars

\* A child with some fields set and others not, one of them in the middle of
\* the order, holding values other than the first of each.
SparseDiff ==
    \E h \in 1 .. (Len(nodes) - 1) :
        /\ NodeAt(nodes, h).present_diffs = 2 ^ DiffID_JailRounds + 2 ^ DiffID_OwnedProperties
                                            + 2 ^ DiffID_Level1Rent
        /\ NodeAt(nodes, h).diffs =
            << FieldDiff(DiffID_JailRounds, [i \in 0 .. (PlayerCount - 1) |-> 1]),
               FieldDiff(DiffID_OwnedProperties, 1 :> Ownership(0, 0)),
               FieldDiff(DiffID_Level1Rent, 1) >>


(***************************************************************************)
(* get_combinations on its own: called with any 1 <= k <= n and followed   *)
(* through the iterations of its loop.                                      *)
(***************************************************************************)
\* The largest n get_combinations is called with.
MaxCombN == 7

CombInit ==
    /\ StartFrom(NewGame(PlayerCount))
    /\ comb_n \in 1 .. MaxCombN
    /\ comb_k \in 1 .. comb_n
    /\ comb_curr = <<>>
    /\ combinations = <<>>
    /\ comb_pc = "call"

\* Up to the loop: the initial combination is set up and pushed.
CombSetup ==
    /\ comb_pc = "call"
    /\ comb_curr' = CombFirst(comb_k)
    /\ combinations' = <<CombFirst(comb_k)>>
    /\ comb_pc' = "loop"
    /\ UNCHANGED <<comb_n, comb_k>>
    /\ UNCHANGED <<nodes, dirty_handles, root_handle, move_history, root_turn, played>>
    /\ UNCHANGED agent_vars

\* One iteration of the loop: the next combination is pushed, or the loop
\* breaks.
CombIteration ==
    /\ comb_pc = "loop"
    /\ \E carried \in {CombCarry(comb_n, comb_k, [comb_curr EXCEPT ![comb_k] = @ + 1],
                                 comb_k - 1)} :
        IF carried[1][1] > comb_n - comb_k
        THEN /\ comb_curr' = carried[1]
             /\ comb_pc' = "return"
             /\ UNCHANGED combinations
        ELSE /\ comb_curr' = CombFill(comb_k, carried[1], carried[2] + 1)
             /\ combinations' = Append(combinations, comb_curr')
             /\ UNCHANGED comb_pc
    /\ UNCHANGED <<comb_n, comb_k>>
    /\ UNCHANGED <<nodes, dirty_handles, root_handle, move_history, root_turn, played>>
    /\ UNCHANGED agent_vars

CombNext ==
    \/ CombSetup
    \/ CombIteration

CombSpec == CombInit /\ [][CombNext]_vars

\* C(n, k).
RECURSIVE Binomial(_, _)
Binomial(n, k) ==
    IF k = 0 \/ k = n THEN 1 ELSE Binomial(n - 1, k - 1) + Binomial(n - 1, k)

\* The k-element subsets of {0 .. n-1}.
KSubsets(n, k) == {S \in SUBSET (0 .. (n - 1)) : Cardinality(S) = k}

\* a comes before b in lexicographic order, both of the same length.
LexBefore(a, b) ==
    \E i \in 1 .. Len(a) : a[i] < b[i] /\ \A j \in 1 .. (i - 1) : a[j] = b[j]

\* C40: get_combinations(n, k), 1 <= k <= n, returns C(n, k) vectors of
\* length k, each strictly increasing with elements in 0 .. n-1, which are
\* together all the k-element subsets of {0 .. n-1} (so each once), each
\* vector coming before the next in lexicographic order.
AllCombinations ==
    comb_pc = "return" =>
        /\ combinations = get_combinations(comb_n, comb_k)
        /\ Len(combinations) = Binomial(comb_n, comb_k)
        /\ Len(combinations) = Cardinality(KSubsets(comb_n, comb_k))
        /\ \A i \in 1 .. Len(combinations) :
            /\ Len(combinations[i]) = comb_k
            /\ \A j \in 1 .. (comb_k - 1) : combinations[i][j] < combinations[i][j + 1]
            /\ Range(combinations[i]) \subseteq 0 .. (comb_n - 1)
        /\ {Range(combinations[i]) : i \in 1 .. Len(combinations)} = KSubsets(comb_n, comb_k)
        /\ \A i \in 1 .. (Len(combinations) - 1) :
            LexBefore(combinations[i], combinations[i + 1])

\* The ten triples of {0 .. 4}, the seventh and the tenth found after
\* carrying into the first position.
TenTriples ==
    /\ comb_pc = "return"
    /\ comb_n = 5
    /\ comb_k = 3
    /\ Len(combinations) = 10
    /\ combinations[7] = <<1, 2, 3>>
    /\ combinations[10] = <<2, 3, 4>>

====
